---- MODULE Spec2Model ----
(***************************************************************************)
(* Verification model of the financial-statement analysis pipeline of      *)
(* psx-research-agent: the LangGraph orchestrator, its five workflow       *)
(* steps, the state store that snapshots the pipeline state, the readers   *)
(* that poll the snapshot directory, and the model/key policy that names   *)
(* the directories.                                                        *)
(*                                                                         *)
(* Strings whose characters matter (model ids, symbols, directory keys)    *)
(* are sequences of one-character strings.  Python values that may be      *)
(* None, a dict or something else are tagged records: [t |-> "none"],      *)
(* [t |-> "dict", v |-> f], [t |-> "other"], [t |-> "str", v |-> s].       *)
(***************************************************************************)
EXTENDS Integers, Sequences, FiniteSets, TLC

(***************************************************************************)
(* Bounds of the model.                                                    *)
(***************************************************************************)
\* polls a reader may make before its wall-clock budget is spent
MaxPolls == 2
\* snapshot writes of one run that may fail
MaxWriteFaults == 1
\* largest token count one LLM call reports in one field
MaxTok == 1
\* direct invocations of step functions in StepSpec
MaxCalls == 2

\* analyze_stock calls started in one behaviour
MaxServiceCalls == 3

\* the longest string value of a serialized mapping
MaxString == 3

\* the longest string value of a response that is cut off
MaxCut == 2

(***************************************************************************)
(* Characters and strings.                                                 *)
(***************************************************************************)
LowerChars == <<"a","b","c","d","e","f","g","h","i","j","k","l","m",
                "n","o","p","q","r","s","t","u","v","w","x","y","z">>

UpperChars == <<"A","B","C","D","E","F","G","H","I","J","K","L","M",
                "N","O","P","Q","R","S","T","U","V","W","X","Y","Z">>

DigitChars == {"0","1","2","3","4","5","6","7","8","9"}

\* the value None where a string is expected
NoneStr == <<"<None>">>

AUTO == <<"a","u","t","o">>

DEFAULT == <<"d","e","f","a","u","l","t">>

STATES == <<"s","t","a","t","e","s">>

\* directory component made from the wall clock when no symbol is given
TIMESTAMP == <<"2","0","2","6">>

\* Python truthiness of an optional string
Truthy(s) == s # NoneStr /\ s # <<>>

IndexOf(c, chars) == IF \E i \in 1..Len(chars) : chars[i] = c
                     THEN CHOOSE i \in 1..Len(chars) : chars[i] = c
                     ELSE 0

UpperChar(c) == IF IndexOf(c, LowerChars) > 0 THEN UpperChars[IndexOf(c, LowerChars)] ELSE c

\* str.upper()
Upper(s) == [i \in 1..Len(s) |-> UpperChar(s[i])]

\* the character class [a-zA-Z0-9_-]
IsKeyChar(c) == \/ IndexOf(c, LowerChars) > 0
                \/ IndexOf(c, UpperChars) > 0
                \/ c \in DigitChars
                \/ c \in {"_", "-"}

\* model_key.replace("/", "_")
ReplaceSlash(s) == [i \in 1..Len(s) |-> IF s[i] = "/" THEN "_" ELSE s[i]]

\* re.sub(r'[^a-zA-Z0-9_-]', '_', model_key)
SubNonKeyChars(s) == [i \in 1..Len(s) |-> IF IsKeyChar(s[i]) THEN s[i] ELSE "_"]

RECURSIVE CollapseUnderscores(_)
\* re.sub(r'_+', '_', model_key)
CollapseUnderscores(s) ==
    IF Len(s) <= 1 THEN s
    ELSE IF s[1] = "_" /\ s[2] = "_" THEN CollapseUnderscores(Tail(s))
         ELSE <<s[1]>> \o CollapseUnderscores(Tail(s))

RECURSIVE StripLeft(_)
StripLeft(s) == IF s # <<>> /\ s[1] = "_" THEN StripLeft(Tail(s)) ELSE s

RECURSIVE StripRight(_)
StripRight(s) == IF s # <<>> /\ s[Len(s)] = "_" THEN StripRight(SubSeq(s, 1, Len(s) - 1)) ELSE s

\* model_key.strip('_')
StripUnderscores(s) == StripRight(StripLeft(s))

SanitizeKey(e, a) ==
    StripUnderscores(CollapseUnderscores(SubNonKeyChars(ReplaceSlash(e \o <<"_">> \o a))))

(***************************************************************************)
(* Model selection policy (ModelConfig).                                   *)
(***************************************************************************)
\* "openai/gpt-4o-mini"
DEFAULT_EXTRACTION_MODEL ==
    <<"o","p","e","n","a","i","/","g","p","t","-","4","o","-","m","i","n","i">>

\* "openai/gpt-4o"
DEFAULT_ANALYSIS_MODEL == <<"o","p","e","n","a","i","/","g","p","t","-","4","o">>

\* "google/gemini-3-pro-preview"
GEMINI_PRO == <<"g","o","o","g","l","e","/","g","e","m","i","n","i","-","3","-",
                "p","r","o","-","p","r","e","v","i","e","w">>

\* "google/gemini-3-flash-preview"
GEMINI_FLASH == <<"g","o","o","g","l","e","/","g","e","m","i","n","i","-","3","-",
                  "f","l","a","s","h","-","p","r","e","v","i","e","w">>

GEMINI_MODELS == <<GEMINI_PRO, GEMINI_FLASH>>

is_multimodal_model(model) == \E i \in 1..Len(GEMINI_MODELS) : GEMINI_MODELS[i] = model

get_extraction_model(user_model) ==
    IF Truthy(user_model) /\ user_model # AUTO THEN user_model ELSE DEFAULT_EXTRACTION_MODEL

get_analysis_model(user_model) ==
    IF Truthy(user_model) /\ user_model # AUTO THEN user_model ELSE DEFAULT_ANALYSIS_MODEL

\* normalize_model_name that leaves "auto" as it is
NormalizeKeepsAuto(model, is_extraction) == model

normalize_model_name(model, is_extraction) ==
    IF model = AUTO
    THEN (IF is_extraction THEN DEFAULT_EXTRACTION_MODEL ELSE DEFAULT_ANALYSIS_MODEL)
    ELSE model

(***************************************************************************)
(* Directory keys.  A path below data/results is the sequence of its       *)
(* components.                                                             *)
(***************************************************************************)
\* StateManager._generate_model_key
StateManager_generate_model_key(extraction_model, analysis_model) ==
    SanitizeKey(IF Truthy(extraction_model) THEN extraction_model ELSE DEFAULT,
                IF Truthy(analysis_model) THEN analysis_model ELSE DEFAULT)

\* FileResultRepository._generate_model_key
Repository_generate_model_key(extraction_model, analysis_model) ==
    SanitizeKey(IF Truthy(extraction_model) THEN extraction_model ELSE DEFAULT,
                IF Truthy(analysis_model) THEN analysis_model ELSE DEFAULT)

\* state_monitor._generate_model_key
Monitor_generate_model_key(extraction_model, analysis_model) ==
    SanitizeKey(IF Truthy(extraction_model) THEN extraction_model ELSE DEFAULT,
                IF Truthy(analysis_model) THEN analysis_model ELSE DEFAULT)

\* StateManager.setup_state_dir: the directory the snapshots go to
setup_state_dir(symbol, extraction_model, analysis_model) ==
    IF Truthy(symbol)
    THEN IF Truthy(extraction_model) \/ Truthy(analysis_model)
         THEN <<Upper(symbol),
                StateManager_generate_model_key(extraction_model, analysis_model),
                STATES>>
         ELSE <<Upper(symbol), STATES>>
    ELSE <<TIMESTAMP, STATES>>

\* FileResultRepository._get_result_path: the directory of result_{statement}.txt
ResultDir(symbol, extraction_model, analysis_model) ==
    IF Truthy(extraction_model) \/ Truthy(analysis_model)
    THEN <<Upper(symbol), Repository_generate_model_key(extraction_model, analysis_model)>>
    ELSE <<Upper(symbol)>>

\* the directory analyze_stock caches the result of a request in: the
\* repository is given the normalized model ids
CacheDir(r) ==
    ResultDir(r.symbol,
              normalize_model_name(r.extraction_model, TRUE),
              normalize_model_name(r.analysis_model, FALSE))

(***************************************************************************)
(* Python values.                                                          *)
(***************************************************************************)
NoneV == [t |-> "none"]

\* a JSON value that is not a mapping (a list, a string)
OtherV == [t |-> "other"]

\* a mapping: v maps the keys present to their values; trips names the
\* steps whose arithmetic or formatting meets an ill-typed value in it and
\* raises (the content is free-form LLM output)
DictT(f, trips) == [t |-> "dict", v |-> f, trips |-> trips]

Dict(f) == DictT(f, {})

NoKeys == [k \in {} |-> 0]

EmptyDict == Dict(NoKeys)

Str(s) == [t |-> "str", v |-> s]

List(l) == [t |-> "list", v |-> l]

IsDict(x) == x.t = "dict"

RECURSIVE Gcd(_, _)
Gcd(a, b) == IF b = 0 THEN a ELSE Gcd(b, a % b)

Abs(i) == IF i < 0 THEN -i ELSE i

\* the number n/d in lowest terms, d > 0, for d # 0
Q(n, d) ==
    LET g == Gcd(Abs(n), Abs(d))
        s == IF d < 0 THEN -1 ELSE 1
    IN [t |-> "num", n |-> (s * n) \div g, d |-> (s * d) \div g]

Num(i) == [t |-> "num", n |-> i, d |-> 1]

RAdd(a, b) == Q(a.n * b.d + b.n * a.d, a.d * b.d)

RSub(a, b) == Q(a.n * b.d - b.n * a.d, a.d * b.d)

RMul(a, b) == Q(a.n * b.n, a.d * b.d)

RDiv(a, b) == Q(a.n * b.d, a.d * b.n)

RAbs(a) == [t |-> "num", n |-> Abs(a.n), d |-> a.d]

RGt(a, b) == a.n * b.d > b.n * a.d

Hundred == Num(100)

\* x is not None
IsNotNone(x) == x # NoneV

\* truthiness of a value that is None or a number
T(x) == x.t = "num" /\ x.n # 0

Pos(x) == x.t = "num" /\ x.n > 0

\* dict.get(key)
Get(f, k) == IF k \in DOMAIN f THEN f[k] ELSE NoneV

\* x or y
Or(x, y) == IF T(x) THEN x ELSE y

\* adds key k with value x to the mapping f when cond holds
PutIf(f, cond, k, x) == IF cond THEN (k :> x) @@ f ELSE f

(***************************************************************************)
(* Calculate: the derived metrics (CalculateStep helpers).  e is the       *)
(* extracted mapping, c the calculated mapping built so far, sp the stock  *)
(* price.                                                                  *)
(***************************************************************************)
\* a {current, previous} pair as the value of a key
Pair(cur, prev) == [t |-> "pair", current |-> cur, previous |-> prev]

\* revenue_data.get("current") if isinstance(revenue_data, dict) else revenue_data
RevenueOf(e) == LET r == Get(e, "revenue") IN IF r.t = "pair" THEN r.current ELSE r

calculate_share_metrics(e, c, sp) ==
    LET ni  == Get(e, "net_income")
        eps == Get(e, "eps")
        c1  == IF Get(e, "shares_outstanding") = NoneV
               THEN PutIf(c, T(ni) /\ T(eps) /\ Pos(eps), "shares_outstanding", RDiv(ni, eps))
               ELSE c
        so  == Or(Get(e, "shares_outstanding"), Get(c1, "shares_outstanding"))
        c2  == PutIf(c1, T(sp) /\ T(so), "market_cap", RMul(sp, so))
        se  == Get(e, "shareholders_equity")
    IN IF Get(e, "book_value_per_share") = NoneV
       THEN PutIf(c2, T(se) /\ T(so) /\ Pos(so), "book_value_per_share", RDiv(se, so))
       ELSE c2

calculate_valuation_metrics(e, c, sp) ==
    LET eps == Get(e, "eps")
        c1  == PutIf(c, T(sp) /\ T(eps) /\ Pos(eps), "pe_ratio", RDiv(sp, eps))
        bv  == Or(Get(e, "book_value_per_share"), Get(c1, "book_value_per_share"))
        c2  == PutIf(c1, T(sp) /\ T(bv) /\ Pos(bv), "pb_ratio", RDiv(sp, bv))
        mc  == Get(c2, "market_cap")
        rev == RevenueOf(e)
        c3  == PutIf(c2, T(mc) /\ T(rev) /\ Pos(rev), "ps_ratio", RDiv(mc, rev))
        ebitda == Get(e, "ebitda")
        cash   == Get(e, "cash")
        debt   == Get(e, "total_debt")
        c4  == PutIf(c3, T(mc) /\ T(debt) /\ cash # NoneV /\ T(ebitda) /\ Pos(ebitda),
                     "ev_ebitda", RDiv(RSub(RAdd(mc, debt), cash), ebitda))
        fcf == Get(e, "free_cash_flow")
    IN PutIf(c4, T(fcf) /\ T(mc) /\ Pos(mc), "fcf_yield", RMul(RDiv(fcf, mc), Hundred))

calculate_growth_metrics(e, c) ==
    LET r   == Get(e, "revenue")
        c1  == IF r.t = "pair"
               THEN PutIf(c, T(r.current) /\ T(r.previous) /\ Pos(r.previous),
                          "revenue_growth_pct",
                          RMul(RDiv(RSub(r.current, r.previous), r.previous), Hundred))
               ELSE c
        ni  == Get(e, "net_income")
        nip == Get(e, "net_income_previous")
    IN PutIf(c1, T(ni) /\ T(nip) /\ Pos(nip), "net_income_growth_pct",
             RMul(RDiv(RSub(ni, nip), nip), Hundred))

calculate_health_metrics(e, c, sp) ==
    LET ni   == Get(e, "net_income")
        se   == Get(e, "shareholders_equity")
        ta   == Get(e, "total_assets")
        debt == Get(e, "total_debt")
        ca   == Get(e, "current_assets")
        cl   == Get(e, "current_liabilities")
        oi   == Get(e, "operating_income")
        rev  == RevenueOf(e)
        capex == Get(e, "capital_expenditures")
        div  == Get(e, "dividends_paid")
        fcf  == Get(e, "free_cash_flow")
        cash == Get(e, "cash")
        ar   == Get(e, "accounts_receivable")
        cogs == Get(e, "cogs")
        ie   == Get(e, "interest_expense")
        so   == Or(Get(e, "shares_outstanding"), Get(c, "shares_outstanding"))
        c1  == PutIf(c, T(ni) /\ T(se) /\ Pos(se), "roe", RMul(RDiv(ni, se), Hundred))
        c2  == PutIf(c1, T(ni) /\ T(ta) /\ Pos(ta), "roa", RMul(RDiv(ni, ta), Hundred))
        c3  == PutIf(c2, T(debt) /\ T(se) /\ Pos(se), "debt_to_equity", RDiv(debt, se))
        c4  == PutIf(c3, T(ca) /\ T(cl) /\ Pos(cl), "current_ratio", RDiv(ca, cl))
        c5  == PutIf(c4, T(ca) /\ T(cl), "working_capital", RSub(ca, cl))
        c6  == PutIf(c5, T(oi) /\ T(rev) /\ Pos(rev), "operating_margin",
                     RMul(RDiv(oi, rev), Hundred))
        c7  == PutIf(c6, T(ni) /\ T(rev) /\ Pos(rev), "net_margin",
                     RMul(RDiv(ni, rev), Hundred))
        c8  == PutIf(c7, T(capex) /\ T(rev) /\ Pos(rev), "capex_pct_revenue",
                     RMul(RDiv(RAbs(capex), rev), Hundred))
        c9  == PutIf(c8, T(div) /\ T(ni) /\ Pos(ni), "payout_ratio",
                     RMul(RDiv(div, ni), Hundred))
        c10 == PutIf(c9, T(div) /\ T(fcf), "fcf_coverage", RDiv(fcf, RAbs(div)))
        c11 == PutIf(c10, T(cash) /\ T(so) /\ Pos(so), "cash_per_share", RDiv(cash, so))
        c12 == PutIf(c11, T(debt) /\ T(ta) /\ Pos(ta), "debt_to_assets", RDiv(debt, ta))
        c13 == PutIf(c12, ar # NoneV /\ T(cl) /\ Pos(cl), "quick_ratio",
                     RDiv(IF T(cash) THEN RAdd(cash, ar) ELSE ar, cl))
        c14 == PutIf(c13, cogs # NoneV /\ T(rev) /\ Pos(rev), "gross_margin_pct",
                     RMul(RDiv(RSub(rev, cogs), rev), Hundred))
    IN PutIf(c14, T(oi) /\ T(ie) /\ Pos(ie), "interest_coverage", RDiv(oi, ie))

\* the mapping CalculateStep.execute stores on its normal path
CalculatedMetrics(e, sp) ==
    LET c1 == calculate_share_metrics(e, NoKeys, sp)
        c2 == calculate_valuation_metrics(e, c1, sp)
        c3 == calculate_growth_metrics(e, c2)
    IN calculate_health_metrics(e, c3, sp)

(***************************************************************************)
(* Financial metrics validator.  A finding is the string "field:kind";     *)
(* each check returns the findings it adds.                                *)
(***************************************************************************)
CRITICAL_METRICS == <<"revenue", "net_income", "total_assets", "total_liabilities",
                      "shareholders_equity", "operating_cash_flow", "free_cash_flow">>

\* a tolerance of ten percent
TenPercent == Q(1, 10)

\* 0.01
OnePercent == Q(1, 100)

\* the absolute tolerance used when the base amount is zero
AbsFloor == Num(1000)

\* abs(base) * 0.01 if base != 0 else 1000
FlowTolerance(base) == IF base.n # 0 THEN RMul(RAbs(base), OnePercent) ELSE AbsFloor

Finding(errs, warns) == [errors |-> errs, warnings |-> warns]

validate_critical_metrics(data) ==
    IF \E i \in 1..Len(CRITICAL_METRICS) : Get(data, CRITICAL_METRICS[i]) = NoneV
    THEN Finding(<<"critical_metrics:missing">>, <<>>)
    ELSE Finding(<<>>, <<>>)

validate_balance_sheet(data) ==
    LET ta == Get(data, "total_assets")
        tl == Get(data, "total_liabilities")
        se == Get(data, "shareholders_equity")
    IN IF NoneV \in {ta, tl, se}
       THEN Finding(<<"balance_sheet:missing">>, <<>>)
       ELSE IF RGt(RAbs(RSub(se, RSub(ta, tl))), RMul(ta, OnePercent))
            THEN Finding(<<"balance_sheet:mismatch">>, <<>>)
            ELSE Finding(<<>>, <<>>)

validate_cash_flow_reconciliation(data) ==
    LET bc == Get(data, "beginning_cash")
        nc == Get(data, "net_change_cash")
        ec == Get(data, "ending_cash")
    IN IF NoneV \in {bc, nc, ec}
       THEN Finding(<<>>, <<"cash_flow:missing">>)
       ELSE IF RGt(RAbs(RSub(ec, RAdd(bc, nc))), FlowTolerance(bc))
            THEN Finding(<<"cash_flow:mismatch">>, <<>>)
            ELSE Finding(<<>>, <<>>)

\* the net-income check with a mismatch reported as an error
validate_net_income_as_error(data) ==
    LET is_ni == Get(data, "net_income")
        cf_ni == Get(data, "cash_flow_net_income")
    IN IF NoneV \in {is_ni, cf_ni}
       THEN Finding(<<>>, <<"net_income:missing">>)
       ELSE IF RGt(RAbs(RSub(is_ni, cf_ni)), FlowTolerance(is_ni))
            THEN Finding(<<"net_income:mismatch">>, <<>>)
            ELSE Finding(<<>>, <<>>)

validate_net_income_consistency(data) ==
    LET is_ni == Get(data, "net_income")
        cf_ni == Get(data, "cash_flow_net_income")
    IN IF NoneV \in {is_ni, cf_ni}
       THEN Finding(<<>>, <<"net_income:missing">>)
       ELSE IF RGt(RAbs(RSub(is_ni, cf_ni)), FlowTolerance(is_ni))
            THEN Finding(<<>>, <<"net_income:mismatch">>)
            ELSE Finding(<<>>, <<>>)

validate_free_cash_flow_calculation(data) ==
    LET ocf   == Get(data, "operating_cash_flow")
        capex == Get(data, "capital_expenditures")
        fcf   == Get(data, "free_cash_flow")
    IN IF NoneV \in {ocf, capex, fcf}
       THEN Finding(<<>>, <<"fcf:missing">>)
       ELSE IF RGt(RAbs(RSub(fcf, RSub(ocf, RAbs(capex)))), FlowTolerance(ocf))
            THEN Finding(<<>>, <<"fcf:mismatch">>)
            ELSE Finding(<<>>, <<>>)

\* FinancialMetricsValidator.validate_all: the mapping {is_valid, errors, warnings}
validate_all(data) ==
    LET f1 == validate_critical_metrics(data)
        f2 == validate_balance_sheet(data)
        f3 == validate_cash_flow_reconciliation(data)
        f4 == validate_net_income_consistency(data)
        f5 == validate_free_cash_flow_calculation(data)
        errs  == f1.errors \o f2.errors \o f3.errors \o f4.errors \o f5.errors
        warns == f1.warnings \o f2.warnings \o f3.warnings \o f4.warnings \o f5.warnings
    IN [is_valid |-> Len(errs) = 0, errors |-> errs, warnings |-> warns]

(***************************************************************************)
(* AnalysisState and the workflow steps.  A step operator returns          *)
(* [st, saved, raised]: the state it returns, whether it called the state  *)
(* store's save, and whether its body raised into the error boundary.      *)
(* An entry of state.errors is modelled by its fixed leading text.         *)
(***************************************************************************)
StepNames == {"00_initial", "01_extract", "02_calculate", "03_validate",
              "04_analyze", "05_format", "99_final"}

ZeroUsage == [prompt_tokens |-> 0, completion_tokens |-> 0, total_tokens |-> 0]

\* {"steps": {}, "cumulative": {...zeros...}}
FreshTokenUsage == [t |-> "usage", steps |-> NoKeys, cumulative |-> ZeroUsage]

AddUsage(c, u) == [prompt_tokens     |-> c.prompt_tokens + u.prompt_tokens,
                   completion_tokens |-> c.completion_tokens + u.completion_tokens,
                   total_tokens      |-> c.total_tokens + u.total_tokens]

\* the bookkeeping with the cumulative totals assigned instead of incremented
RecordUsageAssigns(tu, name, entry, u) ==
    LET base == IF tu = NoneV THEN FreshTokenUsage ELSE tu
    IN [base EXCEPT !.steps = (name :> entry) @@ base.steps,
                    !.cumulative = u]

\* the token bookkeeping shared by Extract and Analyze: entry is what is
\* stored under steps[name], u what is added to the cumulative totals
RecordUsage(tu, name, entry, u) ==
    LET base == IF tu = NoneV THEN FreshTokenUsage ELSE tu
    IN [base EXCEPT !.steps = (name :> entry) @@ base.steps,
                    !.cumulative = AddUsage(base.cumulative, u)]

\* BaseWorkflowStep._handle_errors with a default that leaves the key unset
HandleErrorsKeepsOutput(st, key, default, prefix) ==
    [st EXCEPT !.errors = Append(st.errors, prefix)]

\* _handle_errors that replaces the list by the new entry
HandleErrorsRewrites(st, key, default, prefix) ==
    [st EXCEPT !.errors = <<prefix>>,
               ![key] = IF IsDict(default) THEN EmptyDict ELSE default]

\* BaseWorkflowStep._handle_errors
HandleErrors(st, key, default, prefix) ==
    [st EXCEPT !.errors = Append(st.errors, prefix),
               ![key] = IF IsDict(default) THEN EmptyDict ELSE default]

StepResult(st, saved, raised) == [st |-> st, saved |-> saved, raised |-> raised]

\* not pdf_text or len(pdf_text.strip()) < 100, on the length class of the text
TextInsufficient(text) == text \in {"none", "empty", "blank", "short"}

\* the local list of fallback models in ExtractStep._extract_with_pdf
ExtractFallbackModels == <<GEMINI_PRO, GEMINI_FLASH>>

\* the models _extract_with_pdf calls, in order, until one succeeds
PdfCandidates(preferred) ==
    (IF Truthy(preferred) /\ is_multimodal_model(preferred) THEN <<preferred>> ELSE <<>>)
    \o ExtractFallbackModels

\* what _extract_with_pdf ends with: returned by the call number `by`, or
\* raised; calls are the models called, last_error the number of the call
\* whose error the raised message quotes (0: none)
PdfOutcome(returned, by, calls, last_error) ==
    [returned |-> returned, by |-> by, calls |-> calls, last_error |-> last_error]

\* the for loop of _extract_with_pdf over gemini_models from position i.
\* pdf[n] is how the n-th call_llm_with_pdf of this extraction ends: "ok",
\* or an LLMAnalysisError that mentions a quota ("quota") or not ("error");
\* call_llm_with_pdf turns every exception into an LLMAnalysisError
RECURSIVE FallbackLoop(_, _, _, _, _)
FallbackLoop(models, i, pdf, calls, last_error) ==
    IF i > Len(models) THEN PdfOutcome(FALSE, 0, calls, last_error)
    ELSE IF pdf[Len(calls) + 1] = "ok"
    THEN PdfOutcome(TRUE, Len(calls) + 1, Append(calls, models[i]), last_error)
    ELSE FallbackLoop(models, i + 1, pdf, Append(calls, models[i]), Len(calls) + 1)

\* the loop leaving at the first error that is not a quota error
RECURSIVE FallbackLoopQuotaOnly(_, _, _, _, _)
FallbackLoopQuotaOnly(models, i, pdf, calls, last_error) ==
    IF i > Len(models) THEN PdfOutcome(FALSE, 0, calls, last_error)
    ELSE IF pdf[Len(calls) + 1] = "ok"
    THEN PdfOutcome(TRUE, Len(calls) + 1, Append(calls, models[i]), last_error)
    ELSE IF pdf[Len(calls) + 1] = "error"
    THEN PdfOutcome(FALSE, 0, Append(calls, models[i]), Len(calls) + 1)
    ELSE FallbackLoopQuotaOnly(models, i + 1, pdf, Append(calls, models[i]), Len(calls) + 1)

\* _extract_with_pdf that gives up at an error that is not a quota error
extract_with_pdf_quota_only(preferred_model, pdf) ==
    IF Truthy(preferred_model) /\ is_multimodal_model(preferred_model)
    THEN IF pdf[1] = "ok" THEN PdfOutcome(TRUE, 1, <<preferred_model>>, 0)
         ELSE FallbackLoopQuotaOnly(ExtractFallbackModels, 1, pdf, <<preferred_model>>, 0)
    ELSE FallbackLoopQuotaOnly(ExtractFallbackModels, 1, pdf, <<>>, 0)

\* ExtractStep._extract_with_pdf
extract_with_pdf(preferred_model, pdf) ==
    IF Truthy(preferred_model) /\ is_multimodal_model(preferred_model)
    THEN IF pdf[1] = "ok" THEN PdfOutcome(TRUE, 1, <<preferred_model>>, 0)
         ELSE FallbackLoop(ExtractFallbackModels, 1, pdf, <<preferred_model>>, 0)
    ELSE FallbackLoop(ExtractFallbackModels, 1, pdf, <<>>, 0)

\* the PDF branch is taken whatever the text is
UsePdfIgnoresText(st) ==
    Truthy(st.pdf_path) /\ is_multimodal_model(get_extraction_model(st.extraction_model))

\* ExtractStep.execute, line 43: the condition of the PDF branch
UsePdf(st) ==
    /\ Truthy(st.pdf_path)
    /\ \/ is_multimodal_model(get_extraction_model(st.extraction_model))
       \/ TextInsufficient(st.pdf_text)

\* dividend_statements / investor_statements coerced to lists
NormalizeStatements(f) ==
    LET ds == Get(f, "dividend_statements")
        is == Get(f, "investor_statements")
    IN ("dividend_statements" :> (IF ds.t = "list" THEN ds ELSE List(<<>>)))
       @@ ("investor_statements" :> (IF is.t = "list" THEN is ELSE List(<<>>)))
       @@ f

\* ExtractStep.execute.  llm = [ok, first_ok, data, usage]: for the text
\* call ok says whether it returned; for the PDF path first_ok is the
\* index of the first candidate that succeeds (0: none does)
ExtractStep_execute(st, llm) ==
    LET extraction_model == get_extraction_model(st.extraction_model)
        is_multimodal    == is_multimodal_model(extraction_model)
        use_pdf  == UsePdf(st)
        cands    == PdfCandidates(IF is_multimodal THEN extraction_model ELSE NoneStr)
        returned == IF use_pdf THEN llm.first_ok \in 1..Len(cands) ELSE llm.ok
        parsed   == IF IsDict(llm.data) THEN llm.data ELSE EmptyDict
        extracted == [parsed EXCEPT !.v = NormalizeStatements(parsed.v)]
    IN IF returned
       THEN StepResult([st EXCEPT !.extracted_data = extracted,
                                  !.token_usage = RecordUsage(st.token_usage, "extract",
                                                              llm.usage, llm.usage)],
                       TRUE, FALSE)
       ELSE StepResult(HandleErrors(st, "extracted_data", EmptyDict, "Extraction error: "),
                       TRUE, TRUE)

\* CalculateStep.execute
CalculateStep_execute(st) ==
    LET extracted == st.extracted_data
    IN IF extracted = NoneV
       THEN StepResult([st EXCEPT !.errors = Append(st.errors, "Cannot calculate metrics: extraction data is None"),
                                  !.calculated_metrics = EmptyDict],
                       FALSE, FALSE)
       ELSE IF ~IsDict(extracted)
       THEN StepResult([st EXCEPT !.errors = Append(st.errors, "Cannot calculate metrics: extraction data is not a dict"),
                                  !.calculated_metrics = EmptyDict],
                       FALSE, FALSE)
       ELSE IF "calculate" \in extracted.trips
       THEN StepResult(HandleErrors(st, "calculated_metrics", EmptyDict, "Calculation error: "),
                       TRUE, TRUE)
       ELSE StepResult([st EXCEPT !.calculated_metrics =
                                      Dict(CalculatedMetrics(extracted.v, st.stock_price))],
                       TRUE, FALSE)

NoDataToValidate ==
    Dict([is_valid |-> FALSE, errors |-> <<"No data to validate">>, warnings |-> <<>>])

\* {**calculated, **extracted}: the merge with the operands the other way round
validation_data_extracted_last(extracted, calculated) == extracted.v @@ calculated.v

\* validation_data = {**extracted, **calculated}: on a key both mappings have,
\* the value of calculated stands
validation_data(extracted, calculated) == calculated.v @@ extracted.v

\* ValidateStep.execute
ValidateStep_execute(st) ==
    LET extracted  == st.extracted_data
        \* state.get("calculated_metrics") or {}
        calculated == IF st.calculated_metrics = NoneV \/ st.calculated_metrics = EmptyDict
                      THEN EmptyDict ELSE st.calculated_metrics
    IN IF extracted = NoneV \/ ~IsDict(extracted)
       THEN StepResult([st EXCEPT !.errors = Append(st.errors, "Cannot validate: extraction data is None or invalid"),
                                  !.validation_results = NoDataToValidate],
                       FALSE, FALSE)
       ELSE IF ~IsDict(calculated) \/ "validate" \in extracted.trips
       THEN StepResult(HandleErrors(st, "validation_results", NoDataToValidate, "Validation error: "),
                       TRUE, TRUE)
       ELSE StepResult([st EXCEPT !.validation_results =
                                      Dict(validate_all(validation_data(extracted, calculated)))],
                       TRUE, FALSE)

\* AnalyzeStep.execute.  llm = [ok, data, usage]
AnalyzeStep_execute(st, llm) ==
    LET analysis_model == get_analysis_model(st.analysis_model)
    IN IF llm.ok
       THEN StepResult([st EXCEPT !.analysis_results = llm.data,
                                  !.token_usage =
                                      RecordUsage(st.token_usage, "analyze",
                                                  [prompt_tokens     |-> llm.usage.prompt_tokens,
                                                   completion_tokens |-> llm.usage.completion_tokens,
                                                   total_tokens      |-> llm.usage.total_tokens,
                                                   model             |-> analysis_model],
                                                  llm.usage)],
                       TRUE, FALSE)
       ELSE StepResult(HandleErrors(st, "analysis_results", EmptyDict, "Analysis error: "),
                       TRUE, TRUE)

\* x or {} followed by the isinstance check of FormatStep.execute
DictOrEmpty(x) == IF IsDict(x) THEN x ELSE EmptyDict

\* one line group of the report: the section name, or its N/A form when the
\* mapping it is assembled from has nothing
Section(name, nameNA, d) == IF DOMAIN d.v = {} THEN nameNA ELSE name

\* FormatStep.execute
FormatStep_execute(st) ==
    LET extracted  == DictOrEmpty(st.extracted_data)
        calculated == DictOrEmpty(st.calculated_metrics)
        analysis   == DictOrEmpty(st.analysis_results)
    IN IF "format" \in (extracted.trips \cup analysis.trips)
       THEN StepResult(HandleErrors(st, "final_report", Str(<<>>), "Report formatting error: "),
                       TRUE, TRUE)
       ELSE StepResult([st EXCEPT !.final_report =
                                      Str(<<Section("company", "company: N/A", extracted),
                                            Section("metrics", "metrics: N/A", calculated),
                                            Section("analysis", "analysis: N/A", analysis)>>)],
                       TRUE, FALSE)

(***************************************************************************)
(* State of the system.                                                    *)
(***************************************************************************)
VARIABLES
    req,        \* the run requested: symbol, models, document text, price
    pc,         \* position of the orchestrator (LangGraphAnalyzer.analyze)
    st,         \* the AnalysisState threaded through the steps
    stateDir,   \* StateManager._state_save_dir
    files,      \* the snapshot files on disk
    writing,    \* the snapshot file open for writing, or NoStep
    faults,     \* snapshot writes that failed so far
    saveCalls,  \* step names save_state was called with, in order
    executed,   \* workflow nodes executed, in order
    raisedIn,   \* workflow nodes whose body raised into the error boundary
    unsaved,    \* step functions that returned without calling save_state
    outcome,    \* what analyze returned or raised
    rd,         \* the stream_states generator of one client
    qres,       \* the last answer of get_current_states
    calls,      \* direct invocations of step functions (StepSpec)
    results,    \* the result files of FileResultRepository
    jobs,       \* the analyze_stock call each pool worker is in
    ret,        \* what the last analyze_stock call returned
    completed,  \* requests analyze_stock has returned "analyzed" for, with the report
    touched,    \* directories each service run has written into
    svcCalls,   \* analyze_stock calls started so far
    arg,        \* the argument of the function called on its own
    res         \* what that call returned, or NoneV before it

vars == <<req, pc, st, stateDir, files, writing, faults, saveCalls, executed,
          raisedIn, unsaved, outcome, rd, qres, calls,
          results, jobs, ret, completed, touched, svcCalls, arg, res>>

\* the state of the analysis service and its result repository
serviceVars == <<results, jobs, ret, completed, touched, svcCalls>>

\* a function called on its own, outside a run
callVars == <<arg, res>>

NoStep == "-"

NoDir == <<>>

\* the record save_state serialises (wall-clock timestamp and currency left out)
Snapshot(s, step_name) ==
    [step               |-> step_name,
     stock_price        |-> s.stock_price,
     extracted_data     |-> s.extracted_data,
     calculated_metrics |-> s.calculated_metrics,
     validation_results |-> s.validation_results,
     analysis_results   |-> s.analysis_results,
     final_report       |-> s.final_report,
     errors             |-> s.errors,
     token_usage        |-> s.token_usage,
     pdf_text_length    |-> s.pdf_text]

FilesIn(dir) == {f \in files : f.dir = dir}

FileAt(dir, step) == CHOOSE f \in files : f.dir = dir /\ f.step = step

HasFile(dir, step) == \E f \in files : f.dir = dir /\ f.step = step

\* the files after (dir, step) is replaced by the record f
WithFile(dir, step, f) == {g \in files : ~(g.dir = dir /\ g.step = step)} \cup {f}

\* StateManager.save_state up to the point the file is open: open(state_file,
\* "w") creates or truncates the file, json.dump then writes the snapshot
\* into it.  opened = FALSE is open() raising, which save_state swallows.
SaveState(dir, s, step_name, opened) ==
    /\ saveCalls' = Append(saveCalls, step_name)
    /\ IF dir = NoDir
       THEN UNCHANGED <<files, writing, faults>>
       ELSE IF opened
       THEN /\ files' = WithFile(dir, step_name,
                                 [dir |-> dir, step |-> step_name, status |-> "partial",
                                  mtime |-> Len(saveCalls) + 1,
                                  data |-> Snapshot(s, step_name)])
            /\ writing' = step_name
            /\ UNCHANGED faults
       ELSE /\ faults' = faults + 1
            /\ UNCHANGED <<files, writing>>

\* the ways opening the snapshot file can go
OpenOutcomes == IF faults < MaxWriteFaults THEN {TRUE, FALSE} ELSE {TRUE}

\* save_state that lets a failing json.dump escape: the run ends there
FinishSaveAborts ==
    /\ writing # NoStep
    /\ \E ok \in OpenOutcomes :
          IF ok
          THEN /\ files' = WithFile(stateDir, writing,
                                    [FileAt(stateDir, writing) EXCEPT !.status = "full"])
               /\ UNCHANGED <<faults, pc, outcome>>
          ELSE /\ faults' = faults + 1
               /\ pc' = "done"
               /\ outcome' = [kind |-> "raised", msg |-> <<"OSError">>, value |-> NoneV]
               /\ UNCHANGED files
    /\ writing' = NoStep
    /\ UNCHANGED <<req, st, stateDir, saveCalls, executed, raisedIn, unsaved,
                   rd, qres, calls>>
    /\ UNCHANGED <<serviceVars, callVars>>

\* json.dump runs to its end and the file is closed, or it fails part-way
\* and leaves the truncated file behind (swallowed by save_state)
FinishSave ==
    /\ writing # NoStep
    /\ \E ok \in OpenOutcomes :
          IF ok
          THEN /\ files' = WithFile(stateDir, writing,
                                    [FileAt(stateDir, writing) EXCEPT !.status = "full"])
               /\ UNCHANGED faults
          ELSE /\ faults' = faults + 1
               /\ UNCHANGED files
    /\ writing' = NoStep
    /\ UNCHANGED <<req, pc, st, stateDir, saveCalls, executed, raisedIn, unsaved,
                   outcome, rd, qres, calls>>
    /\ UNCHANGED <<serviceVars, callVars>>

(***************************************************************************)
(* What the environment can hand to a run.                                 *)
(***************************************************************************)
\* token usage one call reports: the gateway's counts, total = prompt + completion
\* (all zeros is also what the API client substitutes when usage is omitted)
Usages == {[prompt_tokens |-> p, completion_tokens |-> c, total_tokens |-> p + c] :
               p \in 0..MaxTok, c \in 0..MaxTok}

\* the scenario of the specification: net income and EPS only
ScenarioData == ("net_income" :> Num(100000)) @@ ("eps" :> Num(10))

\* a complete statement whose balance sheet is 0.1% off
BalancedData ==
    ("revenue" :> Pair(Num(5000), Num(4000))) @@ ("net_income" :> Num(500))
    @@ ("total_assets" :> Num(1000)) @@ ("total_liabilities" :> Num(600))
    @@ ("shareholders_equity" :> Num(401)) @@ ("operating_cash_flow" :> Num(700))
    @@ ("free_cash_flow" :> Num(400)) @@ ("capital_expenditures" :> Num(-300))
    @@ ("investor_statements" :> List(<<"outlook">>))

\* parsed JSON the extraction call can return
ExtractedChoices ==
    {OtherV, Dict(ScenarioData), Dict(BalancedData),
     DictT(ScenarioData, {"calculate", "validate", "format"}),
     DictT(BalancedData, {"validate"})}

\* parsed JSON the analysis call can return
AnalysisChoices ==
    {OtherV, Dict("investor_summary" :> List(<<"hold">>)),
     DictT("investor_summary" :> List(<<"hold">>), {"format"})}

FailedCall == [ok |-> FALSE, first_ok |-> 0, data |-> NoneV, usage |-> ZeroUsage]

\* outcomes of the extraction's LLM call(s)
ExtractLLM ==
    {FailedCall} \cup
    [ok : {TRUE}, first_ok : 0..3, data : ExtractedChoices, usage : Usages]

\* outcomes of the analysis LLM call
AnalyzeLLM ==
    {FailedCall} \cup
    [ok : {TRUE}, first_ok : {0}, data : AnalysisChoices, usage : Usages]

Symbols == {<<"h","b","l">>}

PdfPath == <<"h","b","l",".","p","d","f">>

\* requests a run can be started with
Request(sym, em, am, text, price, path) ==
    [symbol |-> sym, extraction_model |-> em, analysis_model |-> am,
     pdf_text |-> text, stock_price |-> price, pdf_path |-> path]

Requests ==
    {Request(sym, NoneStr, NoneStr, "long", Num(50), NoneStr) : sym \in Symbols}
    \cup {Request(sym, AUTO, AUTO, text, NoneV, PdfPath) :
              sym \in Symbols, text \in {"empty", "blank", "short", "long"}}
    \cup {Request(sym, GEMINI_FLASH, AUTO, "short", Num(50), PdfPath) : sym \in Symbols}

\* initial_state of LangGraphAnalyzer.analyze
InitialState(r) ==
    [pdf_text           |-> r.pdf_text,
     pdf_path           |-> NoneStr,
     stock_price        |-> r.stock_price,
     extraction_model   |-> NoneStr,
     analysis_model     |-> NoneStr,
     extracted_data     |-> NoneV,
     calculated_metrics |-> NoneV,
     validation_results |-> NoneV,
     analysis_results   |-> NoneV,
     final_report       |-> NoneV,
     errors             |-> <<>>,
     token_usage        |-> FreshTokenUsage]

NoOutcome == [kind |-> "none", msg |-> <<>>, value |-> NoneV]

ClosedStream == [phase |-> "closed", dir |-> NoDir, todo |-> <<>>, seen |-> {}, events |-> <<>>,
                 polls |-> 0, mode |-> "-", late |-> FALSE]

NoAnswer == [asked |-> FALSE]

\* get_result of a path that holds no file
NoResult == "<none>"

\* _executor = ThreadPoolExecutor(max_workers=2)
MaxWorkers == 2

Workers == 1..MaxWorkers

\* a pool worker that is in no analyze_stock call
IdleJob == [phase |-> "idle", call |-> 0, symbol |-> <<>>, statement |-> "-",
            extraction_model |-> NoneStr, analysis_model |-> NoneStr,
            stateDir |-> NoDir]

NoReturn == [worker |-> 0, call |-> 0, symbol |-> <<>>, statement |-> "-",
             extraction_model |-> NoneStr, analysis_model |-> NoneStr,
             status |-> "-", result |-> NoResult, processed |-> FALSE]

\* the service before any analyze_stock call
ServiceIdle ==
    /\ results = {}
    /\ jobs = [w \in Workers |-> IdleJob]
    /\ ret = NoReturn
    /\ completed = {}
    /\ touched = {}
    /\ svcCalls = 0

\* no function has been called on its own
CallIdle == arg = NoneV /\ res = NoneV

\* the pipeline, the readers and the step functions before anything ran
PipelineIdle ==
    /\ files = {}
    /\ writing = NoStep
    /\ faults = 0
    /\ saveCalls = <<>>
    /\ executed = <<>>
    /\ raisedIn = {}
    /\ unsaved = {}
    /\ outcome = NoOutcome
    /\ rd = ClosedStream
    /\ qres = NoAnswer
    /\ calls = 0

\* the part of the initial condition the specifications of a run share
InitCommon == PipelineIdle /\ ServiceIdle /\ CallIdle

Init ==
    /\ req \in Requests
    /\ pc = "start"
    /\ st = InitialState(req)
    /\ stateDir = NoDir
    /\ InitCommon

(***************************************************************************)
(* The orchestrator (LangGraphAnalyzer) and its workflow graph.            *)
(***************************************************************************)
\* workflow.set_entry_point
EntryPoint == "extract"

\* the graph with the validate node bypassed
WorkflowEdgesSkipValidate ==
    [extract |-> "calculate", calculate |-> "analyze", validate |-> "analyze",
     analyze |-> "format", format |-> "END"]

\* workflow.add_edge(...)
WorkflowEdges ==
    [extract |-> "calculate", calculate |-> "validate", validate |-> "analyze",
     analyze |-> "format", format |-> "END"]

\* the snapshot name each node saves under
SnapshotName ==
    [extract |-> "01_extract", calculate |-> "02_calculate", validate |-> "03_validate",
     analyze |-> "04_analyze", format |-> "05_format"]

Nodes == DOMAIN SnapshotName

\* where the orchestrator stands once node n has returned
AfterNode(n) == IF WorkflowEdges[n] = "END" THEN "final" ELSE WorkflowEdges[n]

\* a join that keeps the first error only
JoinFirstOnly(errs) == IF errs = <<>> THEN <<>> ELSE <<Head(errs)>>

RECURSIVE Join(_)
\* "; ".join(errors)
Join(errs) ==
    IF errs = <<>> THEN <<>>
    ELSE IF Len(errs) = 1 THEN errs
    ELSE <<Head(errs), "; ">> \o Join(Tail(errs))

\* what a step function does to the state and the state store: r is the
\* result of the step operator for node n
StepEffectOn(n, r) ==
    /\ writing = NoStep
    /\ st' = r.st
    /\ executed' = Append(executed, n)
    /\ raisedIn' = IF r.raised THEN raisedIn \cup {n} ELSE raisedIn
    /\ IF r.saved
       THEN /\ \E opened \in OpenOutcomes : SaveState(stateDir, r.st, SnapshotName[n], opened)
            /\ UNCHANGED unsaved
       ELSE /\ unsaved' = unsaved \cup {n}
            /\ UNCHANGED <<files, writing, faults, saveCalls>>
    /\ UNCHANGED <<req, stateDir, outcome, rd, qres>>
    /\ UNCHANGED serviceVars

StepEffect(n, r) == StepEffectOn(n, r) /\ UNCHANGED callVars

\* analyze, lines 85-110: the guard, the state directory, the initial state
\* and its snapshot
AnalyzeBegin ==
    /\ pc = "start"
    /\ IF req.pdf_text \in {"none", "empty", "blank"}
       THEN /\ outcome' = [kind |-> "raised",
                           msg |-> <<"No PDF text content provided for analysis">>,
                           value |-> NoneV]
            /\ pc' = "done"
            /\ UNCHANGED <<st, stateDir, files, writing, faults, saveCalls>>
       ELSE /\ stateDir' = setup_state_dir(req.symbol, NoneStr, NoneStr)
            /\ st' = InitialState(req)
            /\ \E opened \in OpenOutcomes :
                  SaveState(stateDir', InitialState(req), "00_initial", opened)
            /\ pc' = EntryPoint
            /\ UNCHANGED outcome
    /\ UNCHANGED <<req, executed, raisedIn, unsaved, rd, qres, calls>>
    /\ UNCHANGED <<serviceVars, callVars>>

Extract(LLM) ==
    /\ pc = "extract"
    /\ \E llm \in LLM : StepEffect("extract", ExtractStep_execute(st, llm))
    /\ pc' = AfterNode("extract")
    /\ UNCHANGED calls

Calculate ==
    /\ pc = "calculate"
    /\ StepEffect("calculate", CalculateStep_execute(st))
    /\ pc' = AfterNode("calculate")
    /\ UNCHANGED calls

Validate ==
    /\ pc = "validate"
    /\ StepEffect("validate", ValidateStep_execute(st))
    /\ pc' = AfterNode("validate")
    /\ UNCHANGED calls

Analyze(LLM) ==
    /\ pc = "analyze"
    /\ \E llm \in LLM : StepEffect("analyze", AnalyzeStep_execute(st, llm))
    /\ pc' = AfterNode("analyze")
    /\ UNCHANGED calls

Format ==
    /\ pc = "format"
    /\ StepEffect("format", FormatStep_execute(st))
    /\ pc' = AfterNode("format")
    /\ UNCHANGED calls

\* analyze, line 114: the final snapshot
Finalize ==
    /\ pc = "final"
    /\ writing = NoStep
    /\ \E opened \in OpenOutcomes : SaveState(stateDir, st, "99_final", opened)
    /\ pc' = "return"
    /\ UNCHANGED <<req, st, stateDir, executed, raisedIn, unsaved, outcome, rd, qres, calls>>
    /\ UNCHANGED <<serviceVars, callVars>>

\* analyze that returns the report whatever state.errors holds
ReturnIgnoresErrors ==
    /\ pc = "return"
    /\ writing = NoStep
    /\ outcome' = [kind |-> "returned", msg |-> <<>>, value |-> st.final_report]
    /\ pc' = "done"
    /\ UNCHANGED <<req, st, stateDir, files, writing, faults, saveCalls, executed,
                   raisedIn, unsaved, rd, qres, calls>>
    /\ UNCHANGED <<serviceVars, callVars>>

\* analyze, lines 116-120: the terminal error or the report
Return ==
    /\ pc = "return"
    /\ writing = NoStep
    /\ outcome' = IF st.errors # <<>>
                  THEN [kind |-> "raised",
                        msg |-> <<"Analysis errors: ">> \o Join(st.errors),
                        value |-> NoneV]
                  ELSE [kind |-> "returned", msg |-> <<>>, value |-> st.final_report]
    /\ pc' = "done"
    /\ UNCHANGED <<req, st, stateDir, files, writing, faults, saveCalls, executed,
                   raisedIn, unsaved, rd, qres, calls>>
    /\ UNCHANGED <<serviceVars, callVars>>

Next ==
    \/ AnalyzeBegin
    \/ Extract(ExtractLLM)
    \/ Calculate
    \/ Validate
    \/ Analyze(AnalyzeLLM)
    \/ Format
    \/ Finalize
    \/ Return
    \/ FinishSave

Spec == Init /\ [][Next]_vars

(***************************************************************************)
(* The step functions called on their own: execute(state) of each step      *)
(* class applied to states a caller can build, with a state store whose    *)
(* directory is set up.                                                    *)
(***************************************************************************)
\* outcomes of the LLM calls used when steps are called on their own
DirectUsage == [prompt_tokens |-> 1, completion_tokens |-> 1, total_tokens |-> 2]

DirectExtractLLM ==
    {FailedCall} \cup
    [ok : {TRUE}, first_ok : {0, 1}, data : {OtherV, Dict(ScenarioData)}, usage : {DirectUsage}]

DirectAnalyzeLLM ==
    {FailedCall} \cup
    [ok : {TRUE}, first_ok : {0}, data : {Dict("investor_summary" :> List(<<"hold">>))},
     usage : {DirectUsage}]

\* AnalysisState values handed to a step: every key may still be None, and
\* extracted_data may be anything a caller or an earlier step left there
InputStates ==
    {[InitialState(r) EXCEPT !.extracted_data = e, !.calculated_metrics = c,
                             !.token_usage = tu, !.errors = errs, !.pdf_path = path] :
        r \in {Request(<<"h","b","l">>, NoneStr, NoneStr, "short", Num(50), NoneStr)},
        path \in {NoneStr, PdfPath},
        e \in {NoneV, OtherV, EmptyDict, Dict(ScenarioData), DictT(ScenarioData, {"calculate"})},
        c \in {NoneV, OtherV, EmptyDict},
        tu \in {NoneV, FreshTokenUsage},
        errs \in {<<>>, <<"Extraction error: ">>}}

StepInit ==
    /\ req = Request(<<"h","b","l">>, NoneStr, NoneStr, "short", Num(50), NoneStr)
    /\ pc = "direct"
    /\ st \in InputStates
    /\ stateDir = setup_state_dir(req.symbol, NoneStr, NoneStr)
    /\ InitCommon

\* one call step.execute(state) from outside the workflow
Invoke(n, r) ==
    /\ pc = "direct"
    /\ calls < MaxCalls
    /\ StepEffect(n, r)
    /\ calls' = calls + 1
    /\ UNCHANGED pc

InvokeExtract == \E llm \in DirectExtractLLM : Invoke("extract", ExtractStep_execute(st, llm))

InvokeCalculate == Invoke("calculate", CalculateStep_execute(st))

InvokeValidate == Invoke("validate", ValidateStep_execute(st))

InvokeAnalyze == \E llm \in DirectAnalyzeLLM : Invoke("analyze", AnalyzeStep_execute(st, llm))

InvokeFormat == Invoke("format", FormatStep_execute(st))

StepNext ==
    \/ InvokeExtract
    \/ InvokeCalculate
    \/ InvokeValidate
    \/ InvokeAnalyze
    \/ InvokeFormat
    \/ FinishSave

StepSpec == StepInit /\ [][StepNext]_vars

(***************************************************************************)
(* The readers (state_monitor): stream_states and get_current_states.      *)
(***************************************************************************)
\* the characters of the snapshot names, for the order sorted() and max() use
StepChars ==
    [n \in StepNames |->
        CASE n = "00_initial"   -> <<"0","0","_","i","n","i","t","i","a","l">>
          [] n = "01_extract"   -> <<"0","1","_","e","x","t","r","a","c","t">>
          [] n = "02_calculate" -> <<"0","2","_","c","a","l","c","u","l","a","t","e">>
          [] n = "03_validate"  -> <<"0","3","_","v","a","l","i","d","a","t","e">>
          [] n = "04_analyze"   -> <<"0","4","_","a","n","a","l","y","z","e">>
          [] n = "05_format"    -> <<"0","5","_","f","o","r","m","a","t">>
          [] n = "99_final"     -> <<"9","9","_","f","i","n","a","l">>]

\* code point order of the characters that occur in snapshot names
CharRank(c) ==
    IF c \in DigitChars THEN CHOOSE i \in 0..9 : <<"0","1","2","3","4","5","6","7","8","9">>[i + 1] = c
    ELSE IF IndexOf(c, UpperChars) > 0 THEN 10 + IndexOf(c, UpperChars)
    ELSE IF c = "_" THEN 40
    ELSE 40 + IndexOf(c, LowerChars)

\* a < b for Python strings: a is a proper prefix of b, or at the first
\* position where they differ a has the character of lower code point
LexLess(a, b) ==
    \/ Len(a) < Len(b) /\ a = SubSeq(b, 1, Len(a))
    \/ \E i \in 1..Len(a) :
          /\ i <= Len(b)
          /\ SubSeq(a, 1, i - 1) = SubSeq(b, 1, i - 1)
          /\ CharRank(a[i]) < CharRank(b[i])

\* the place of each snapshot name in the order of Python string comparison
NameRank == [n \in StepNames |->
                Cardinality({m \in StepNames : LexLess(StepChars[m], StepChars[n])})]

NameLess(m, n) == NameRank[m] < NameRank[n]

\* max(states.keys())
MaxName(names) == CHOOSE n \in names : \A m \in names : m = n \/ NameLess(m, n)

\* sorted(states_dir.glob("*_state.json")), as step names: a name stands
\* after the names that are less than it
SortedNames(names) ==
    [i \in 1..Cardinality(names) |->
        CHOOSE n \in names : Cardinality({m \in names : NameLess(m, n)}) = i - 1]

\* a progress table that puts Format at 100
get_state_progress_format_100(step_name) ==
    CASE step_name = "00_initial"   -> 0
      [] step_name = "01_extract"   -> 20
      [] step_name = "02_calculate" -> 40
      [] step_name = "03_validate"  -> 60
      [] step_name = "04_analyze"   -> 80
      [] step_name = "05_format"    -> 100
      [] step_name = "99_final"     -> 100
      [] OTHER -> 0

\* get_state_progress
get_state_progress(step_name) ==
    CASE step_name = "00_initial"   -> 0
      [] step_name = "01_extract"   -> 20
      [] step_name = "02_calculate" -> 40
      [] step_name = "03_validate"  -> 60
      [] step_name = "04_analyze"   -> 80
      [] step_name = "05_format"    -> 90
      [] step_name = "99_final"     -> 100
      [] OTHER -> 0

NamesIn(dir) == {f.step : f \in FilesIn(dir)}

\* the snapshots of dir that json.load can read
ReadableIn(dir) == {f.step : f \in {g \in FilesIn(dir) : g.status = "full"}}

\* st_mtime of the most recently modified snapshot of dir
LatestMtime(dir) ==
    LET fs == FilesIn(dir) IN (CHOOSE f \in fs : \A g \in fs : g.mtime <= f.mtime).mtime

\* find_states_directory
find_states_directory(symbol, extraction_model, analysis_model) ==
    LET base == <<Upper(symbol)>>
        old  == base \o <<STATES>>
        modelDirs == {f.dir : f \in {g \in files : Len(g.dir) = 3 /\ g.dir[1] = Upper(symbol)}}
        oldTime   == IF FilesIn(old) # {} THEN LatestMtime(old) ELSE 0
        newer     == {d \in modelDirs : LatestMtime(d) > oldTime}
    IN IF Truthy(extraction_model) \/ Truthy(analysis_model)
       THEN base \o <<Monitor_generate_model_key(extraction_model, analysis_model), STATES>>
       ELSE IF newer # {}
       THEN CHOOSE d \in newer : \A e \in newer : LatestMtime(e) <= LatestMtime(d)
       ELSE old

\* the events stream_states yields (the snapshot data they carry left out)
StateEvent(step_name) ==
    [type |-> "state", step |-> step_name, progress |-> get_state_progress(step_name)]

ErrorEvent(step_name) == [type |-> "error", step |-> step_name, progress |-> 0]

CompleteEvent == [type |-> "complete", step |-> NoStep, progress |-> 0]

TimeoutEvent == [type |-> "timeout", step |-> NoStep, progress |-> 0]

RECURSIVE ReadFilesMarksUnreadable(_, _, _, _)
\* the loop with seen_states.add moved in front of the read
ReadFilesMarksUnreadable(dir, todo, seen, events) ==
    IF todo = <<>> THEN [seen |-> seen, events |-> events, done |-> FALSE]
    ELSE LET step_name == Head(todo)
         IN IF step_name \in seen THEN ReadFilesMarksUnreadable(dir, Tail(todo), seen, events)
            ELSE IF FileAt(dir, step_name).status = "full"
            THEN IF step_name = "99_final"
                 THEN [seen |-> seen \cup {step_name},
                       events |-> events \o <<[type |-> "state", step |-> step_name, progress |-> 100],
                                                [type |-> "complete", step |-> "-", progress |-> 0]>>,
                       done |-> TRUE]
                 ELSE ReadFilesMarksUnreadable(dir, Tail(todo), seen \cup {step_name},
                          Append(events, [type |-> "state", step |-> step_name, progress |-> 0]))
            ELSE ReadFilesMarksUnreadable(dir, Tail(todo), seen \cup {step_name},
                     Append(events, [type |-> "error", step |-> step_name, progress |-> 0]))

RECURSIVE ReadFiles(_, _, _, _)
\* the for loop of stream_states over one sorted listing: a file not yet
\* seen is read; if json.load succeeds its state event is yielded and the
\* step marked seen (99_final also yields complete and ends the generator),
\* if it raises an error event is yielded and the step stays unseen
ReadFiles(dir, todo, seen, events) ==
    IF todo = <<>> THEN [seen |-> seen, events |-> events, done |-> FALSE]
    ELSE LET step_name == Head(todo)
         IN IF step_name \in seen THEN ReadFiles(dir, Tail(todo), seen, events)
            ELSE IF FileAt(dir, step_name).status = "full"
            THEN IF step_name = "99_final"
                 THEN [seen |-> seen \cup {step_name},
                       events |-> events \o <<StateEvent(step_name), CompleteEvent>>,
                       done |-> TRUE]
                 ELSE ReadFiles(dir, Tail(todo), seen \cup {step_name},
                                Append(events, StateEvent(step_name)))
            ELSE ReadFiles(dir, Tail(todo), seen, Append(events, ErrorEvent(step_name)))

\* the directory a client of the run reads: the stream endpoint passes the
\* normalized ids of (model or "auto"); the status endpoint and a plain
\* library call pass no model
ReaderDir(mode) ==
    IF mode = "endpoint"
    THEN find_states_directory(req.symbol,
             normalize_model_name(IF Truthy(req.extraction_model) THEN req.extraction_model ELSE AUTO, TRUE),
             normalize_model_name(IF Truthy(req.analysis_model) THEN req.analysis_model ELSE AUTO, FALSE))
    ELSE find_states_directory(req.symbol, NoneStr, NoneStr)

ReaderModes == {"endpoint", "plain"}

\* the run has returned or raised
RunOver == pc = "done"

\* stream_states up to its loop: the directory is resolved once
StreamOpen ==
    /\ rd.phase = "closed"
    /\ \E mode \in ReaderModes :
          rd' = [phase |-> "open", dir |-> ReaderDir(mode), todo |-> <<>>, seen |-> {},
                 events |-> <<>>, polls |-> 0, mode |-> mode, late |-> FALSE]
    /\ UNCHANGED <<req, pc, st, stateDir, files, writing, faults, saveCalls, executed,
                   raisedIn, unsaved, outcome, qres, calls>>
    /\ UNCHANGED <<serviceVars, callVars>>

\* the top of one iteration of the loop of stream_states within the bounded
\* wait: the sorted listing of the directory
StreamList ==
    /\ rd.phase = "open"
    /\ rd.polls < MaxPolls
    /\ rd' = [rd EXCEPT !.phase = "listed",
                        !.todo = SortedNames(NamesIn(rd.dir)),
                        !.late = @ \/ (RunOver /\ writing = NoStep)]
    /\ UNCHANGED <<req, pc, st, stateDir, files, writing, faults, saveCalls, executed,
                   raisedIn, unsaved, outcome, qres, calls>>
    /\ UNCHANGED <<serviceVars, callVars>>

\* the rest of the iteration: the listed files are read as they are now,
\* then the generator sleeps poll_interval or has returned
StreamRead ==
    /\ rd.phase = "listed"
    /\ LET r == ReadFiles(rd.dir, rd.todo, rd.seen, rd.events)
       IN rd' = [rd EXCEPT !.seen = r.seen, !.events = r.events, !.todo = <<>>,
                           !.phase = IF r.done THEN "ended" ELSE "open",
                           !.polls = @ + 1]
    /\ UNCHANGED <<req, pc, st, stateDir, files, writing, faults, saveCalls, executed,
                   raisedIn, unsaved, outcome, qres, calls>>
    /\ UNCHANGED <<serviceVars, callVars>>

\* a loop that breaks at the end of the wait without yielding the event
StreamTimeoutSilent ==
    /\ rd.phase = "open"
    /\ rd.polls >= MaxPolls
    /\ rd' = [rd EXCEPT !.phase = "ended"]
    /\ UNCHANGED <<req, pc, st, stateDir, files, writing, faults, saveCalls, executed,
                   raisedIn, unsaved, outcome, qres, calls>>
    /\ UNCHANGED <<serviceVars, callVars>>

\* the check at the top of the loop once max_wait_time has elapsed: MaxPolls
\* is the number of iterations that fit in the wait
StreamTimeout ==
    /\ rd.phase = "open"
    /\ rd.polls >= MaxPolls
    /\ rd' = [rd EXCEPT !.events = Append(@, TimeoutEvent), !.phase = "ended"]
    /\ UNCHANGED <<req, pc, st, stateDir, files, writing, faults, saveCalls, executed,
                   raisedIn, unsaved, outcome, qres, calls>>
    /\ UNCHANGED <<serviceVars, callVars>>

\* get_current_states on the directory dir; latest_step = NoStep stands for
\* the answer without that key
get_current_states(dir) ==
    LET states == ReadableIn(dir)
    IN IF states = {}
       THEN [states |-> {}, progress |-> 0, latest_step |-> NoStep, status |-> "not_started"]
       ELSE [states |-> states,
             progress |-> get_state_progress(MaxName(states)),
             latest_step |-> MaxName(states),
             status |-> IF "99_final" \in states THEN "complete" ELSE "in_progress"]

\* the snapshot names whose save_state call has returned, in order
SavesReturned ==
    IF writing # NoStep THEN SubSeq(saveCalls, 1, Len(saveCalls) - 1) ELSE saveCalls

\* the last step the pipeline completed
LastCompleted ==
    IF SavesReturned = <<>> THEN NoStep ELSE SavesReturned[Len(SavesReturned)]

\* a status request during or after the run; the answer is kept together
\* with what was on disk and how far the run was when it was computed
Query ==
    /\ \E mode \in ReaderModes :
          LET dir == ReaderDir(mode)
          IN qres' = [asked |-> TRUE, dir |-> dir, answer |-> get_current_states(dir),
                      present |-> NamesIn(dir), readable |-> ReadableIn(dir),
                      completed |-> LastCompleted, returned |-> SavesReturned,
                      failed |-> faults]
    /\ UNCHANGED <<req, pc, st, stateDir, files, writing, faults, saveCalls, executed,
                   raisedIn, unsaved, outcome, rd, calls>>
    /\ UNCHANGED <<serviceVars, callVars>>

\* outcomes of the LLM calls in the runs the readers watch
WatchedUsage == [prompt_tokens |-> 2, completion_tokens |-> 1, total_tokens |-> 3]

WatchedExtractLLM ==
    {FailedCall} \cup
    [ok : {TRUE}, first_ok : {1}, data : {Dict(ScenarioData)}, usage : {WatchedUsage}]

WatchedAnalyzeLLM ==
    [ok : {TRUE}, first_ok : {0}, data : {Dict("investor_summary" :> List(<<"hold">>))},
     usage : {WatchedUsage}]

StreamInit ==
    /\ req \in {Request(sym, AUTO, AUTO, "long", NoneV, PdfPath) : sym \in Symbols}
    /\ pc = "start"
    /\ st = InitialState(req)
    /\ stateDir = NoDir
    /\ InitCommon

StreamNext ==
    \/ AnalyzeBegin
    \/ Extract(WatchedExtractLLM)
    \/ Calculate
    \/ Validate
    \/ Analyze(WatchedAnalyzeLLM)
    \/ Format
    \/ Finalize
    \/ Return
    \/ FinishSave
    \/ StreamOpen
    \/ StreamList
    \/ StreamRead
    \/ StreamTimeout

StreamSpec == StreamInit /\ [][StreamNext]_vars

QueryNext ==
    \/ AnalyzeBegin
    \/ Extract(WatchedExtractLLM)
    \/ Calculate
    \/ Validate
    \/ Analyze(WatchedAnalyzeLLM)
    \/ Format
    \/ Finalize
    \/ Return
    \/ FinishSave
    \/ Query

QuerySpec == StreamInit /\ [][QueryNext]_vars

\* the event loop keeps running the generator while the client consumes it
StreamStep == StreamList \/ StreamRead \/ StreamTimeout

FairStreamSpec == StreamSpec /\ WF_vars(StreamStep)

(***************************************************************************)
(* The analysis service (FinancialStatementAnalyzerService), its result    *)
(* repository and the worker pool that runs it.                            *)
(***************************************************************************)
\* FileResultRepository._get_result_path, given the directory ResultDir
\* computes: directory and statement of the file
get_result_path(dir, statement_name) == [dir |-> dir, name |-> statement_name]

\* FileResultRepository.has_result
has_result(dir, statement_name) ==
    \E f \in results : f.path = get_result_path(dir, statement_name)

\* FileResultRepository.get_result
get_result(dir, statement_name) ==
    LET p == get_result_path(dir, statement_name)
    IN IF \E f \in results : f.path = p
       THEN (CHOOSE f \in results : f.path = p).content
       ELSE NoResult

\* FileResultRepository.save_result: the result files after write_text
save_result(dir, statement_name, content) ==
    LET p == get_result_path(dir, statement_name)
    IN {f \in results : f.path # p} \cup {[path |-> p, content |-> content]}

\* symbols the analysis is asked for
ServiceSymbols == {<<"h","b","l">>, <<"o","g","d","c">>}

\* the model ids a caller passes for (extraction, analysis)
ModelPairs ==
    {<<NoneStr, NoneStr>>, <<AUTO, AUTO>>,
     <<DEFAULT_EXTRACTION_MODEL, DEFAULT_ANALYSIS_MODEL>>}

\* financial_service.get_latest_report found nothing
NoReport == "<no report>"

\* StatementNameGenerator.generate_name of the latest report
Statements == {"Annual_2024"}

\* final reports a pipeline run can return
Reports == {"report A", "report B"}

\* symbol.upper() of run_financial_analysis, per symbol asked for
UpperOf == [s \in ServiceSymbols |-> Upper(s)]

\* the normalized ids analyze_stock hands to the repository, per pair passed
NormalizedPair ==
    [m \in ModelPairs |-> <<normalize_model_name(m[1], TRUE),
                            normalize_model_name(m[2], FALSE)>>]

\* the directory of the result file, per upper-case symbol and pair passed
ResultDirOf ==
    [s \in {UpperOf[x] : x \in ServiceSymbols} |->
        [m \in ModelPairs |-> ResultDir(s, NormalizedPair[m][1], NormalizedPair[m][2])]]

\* the snapshot directory LangGraphAnalyzer.analyze sets up, per symbol
StateDirOf ==
    [s \in {UpperOf[x] : x \in ServiceSymbols} |-> setup_state_dir(s, NoneStr, NoneStr)]

Returned(w, j, status, result, processed) ==
    [worker |-> w, call |-> j.call, symbol |-> j.symbol, statement |-> j.statement,
     extraction_model |-> j.extraction_model, analysis_model |-> j.analysis_model,
     status |-> status, result |-> result, processed |-> processed]

\* the run of job j has written files of some kind into dir
Touch(j, kind, dir) ==
    [call |-> j.call, symbol |-> j.symbol, extraction_model |-> j.extraction_model,
     analysis_model |-> j.analysis_model, kind |-> kind, dir |-> dir]

\* the request a job was started with
RequestOf(j) ==
    [symbol |-> j.symbol, statement |-> j.statement,
     extraction_model |-> j.extraction_model, analysis_model |-> j.analysis_model]

\* run_financial_analysis submits analyze_stock(symbol.upper(), ...) to the
\* pool; worker w runs it up to the cache lookup
AnalyzeStockBegin(w) ==
    /\ jobs[w].phase = "idle"
    /\ svcCalls < MaxServiceCalls
    /\ svcCalls' = svcCalls + 1
    /\ \E symbol \in ServiceSymbols, m \in ModelPairs, report \in Statements \cup {NoReport} :
          LET j   == [phase |-> "downloading", call |-> svcCalls + 1,
                      symbol |-> UpperOf[symbol], statement |-> report,
                      extraction_model |-> m[1], analysis_model |-> m[2], stateDir |-> NoDir]
              dir == ResultDirOf[j.symbol][m]
          IN IF report = NoReport
             THEN /\ ret' = Returned(w, [j EXCEPT !.statement = "-"], "no_report", NoResult, FALSE)
                  /\ UNCHANGED jobs
             ELSE IF has_result(dir, report)
             THEN /\ ret' = Returned(w, j, "cached", get_result(dir, report), FALSE)
                  /\ UNCHANGED jobs
             ELSE /\ jobs' = [jobs EXCEPT ![w] = j]
                  /\ UNCHANGED ret
    /\ UNCHANGED <<results, completed, touched>>
    /\ UNCHANGED <<req, pc, st, stateDir, files, writing, faults, saveCalls, executed,
                   raisedIn, unsaved, outcome, rd, qres, calls>>
    /\ UNCHANGED callVars

\* _process_pdf up to the start of the pipeline: the PDF is downloaded
\* (PDFDownloadError ends the call with status error), then
\* LangGraphAnalyzer.analyze sets the snapshot directory up
AnalyzeStockRun(w) ==
    /\ jobs[w].phase = "downloading"
    /\ \E downloaded \in BOOLEAN :
          IF downloaded
          THEN LET dir == StateDirOf[jobs[w].symbol]
               IN /\ jobs' = [jobs EXCEPT ![w].phase = "analyzing", ![w].stateDir = dir]
                  /\ touched' = touched \cup {Touch(jobs[w], "snapshots", dir)}
                  /\ UNCHANGED ret
          ELSE /\ jobs' = [jobs EXCEPT ![w] = IdleJob]
               /\ ret' = Returned(w, jobs[w], "error", NoResult, TRUE)
               /\ UNCHANGED touched
    /\ UNCHANGED <<results, completed, svcCalls>>
    /\ UNCHANGED <<req, pc, st, stateDir, files, writing, faults, saveCalls, executed,
                   raisedIn, unsaved, outcome, rd, qres, calls>>
    /\ UNCHANGED callVars

\* the pipeline returns a report, which analyze_stock stores and returns
\* with status analyzed, or raises LLMAnalysisError (status error)
AnalyzeStockFinish(w) ==
    /\ jobs[w].phase = "analyzing"
    /\ \E out \in Reports \cup {"LLMAnalysisError"} :
          LET j   == jobs[w]
              dir == ResultDirOf[j.symbol][<<j.extraction_model, j.analysis_model>>]
          IN IF out \in Reports
             THEN /\ results' = save_result(dir, j.statement, out)
                  /\ ret' = Returned(w, j, "analyzed", out, TRUE)
                  /\ completed' = completed \cup {[request |-> RequestOf(j), report |-> out]}
                  /\ touched' = touched \cup {Touch(j, "result", dir)}
             ELSE /\ ret' = Returned(w, j, "error", NoResult, TRUE)
                  /\ UNCHANGED <<results, completed, touched>>
    /\ jobs' = [jobs EXCEPT ![w] = IdleJob]
    /\ UNCHANGED svcCalls
    /\ UNCHANGED <<req, pc, st, stateDir, files, writing, faults, saveCalls, executed,
                   raisedIn, unsaved, outcome, rd, qres, calls>>
    /\ UNCHANGED callVars

ServiceInit ==
    /\ req = Request(<<"h","b","l">>, AUTO, AUTO, "long", NoneV, PdfPath)
    /\ pc = "service"
    /\ st = InitialState(req)
    /\ stateDir = NoDir
    /\ InitCommon

ServiceNext ==
    \E w \in Workers :
        \/ AnalyzeStockBegin(w)
        \/ AnalyzeStockRun(w)
        \/ AnalyzeStockFinish(w)

ServiceSpec == ServiceInit /\ [][ServiceNext]_vars

(***************************************************************************)
(* The validator called on its own (FinancialMetricsValidator).            *)
(***************************************************************************)
\* no amount: the key is not in the data
Absent == [t |-> "absent"]

\* three amounts under three keys; a key without amount is left out
Amounts(k1, a, k2, b, k3, c) ==
    LET one(k, x) == IF x = Absent THEN NoKeys ELSE (k :> x)
    IN one(k1, a) @@ one(k2, b) @@ one(k3, c)

\* balance sheets: total_assets, total_liabilities, shareholders_equity
BalanceSheets ==
    {Amounts("total_assets", Num(1000), "total_liabilities", Num(600),
             "shareholders_equity", se) :
        se \in {Num(401), Num(350), Num(410), Num(411), Num(390), Num(389), NoneV, Absent}}
    \cup {Amounts("total_assets", ta, "total_liabilities", Num(600),
                  "shareholders_equity", Num(400)) : ta \in {NoneV, Absent}}
    \cup {Amounts("total_assets", Num(0), "total_liabilities", Num(0),
                  "shareholders_equity", e) : e \in {Num(0), Num(1)}}

\* cash flows: beginning_cash, net_change_cash, ending_cash
CashFlows ==
    {Amounts("beginning_cash", bc, "net_change_cash", Num(50), "ending_cash", ec) :
        bc \in {Num(0), Num(100), Num(200000), Num(-200000)},
        ec \in {Num(50), Num(150), Num(1050), Num(1051), Num(1150), Num(202050),
                Num(202051), Num(-197950), NoneV}}
    \cup {Amounts("beginning_cash", Absent, "net_change_cash", Num(50),
                  "ending_cash", Num(50))}

\* net income on the income statement and on the cash-flow statement
NetIncomes ==
    {Amounts("net_income", a, "cash_flow_net_income", b, "unused", Absent) :
        a \in {Num(500), NoneV}, b \in {Num(500), Num(900), Absent}}

\* operating cash flow, capital expenditures, free cash flow, revenue
FreeCashFlows ==
    {Amounts("operating_cash_flow", Num(700), "capital_expenditures", Num(-300),
             "free_cash_flow", f) @@ r :
        f \in {Num(400), Num(1000), NoneV},
        r \in {NoKeys, "revenue" :> Num(5000)}}

\* the data the validator is called with
ValidatorInputs ==
    {b @@ c @@ n @@ f : b \in BalanceSheets, c \in CashFlows, n \in NetIncomes, f \in FreeCashFlows}

ValidatorInit ==
    /\ req = Request(<<"h","b","l">>, NoneStr, NoneStr, "long", NoneV, NoneStr)
    /\ pc = "call"
    /\ st = InitialState(req)
    /\ stateDir = NoDir
    /\ PipelineIdle
    /\ ServiceIdle
    /\ arg \in {Dict(d) : d \in ValidatorInputs}
    /\ res = NoneV

\* validator.validate_all(data)
ValidateAll ==
    /\ res = NoneV
    /\ res' = validate_all(arg.v)
    /\ UNCHANGED <<req, pc, st, stateDir, files, writing, faults, saveCalls, executed,
                   raisedIn, unsaved, outcome, rd, qres, calls, arg>>
    /\ UNCHANGED serviceVars

ValidatorNext == ValidateAll

ValidatorSpec == ValidatorInit /\ [][ValidatorNext]_vars

(***************************************************************************)
(* The JSON parser (JSONParser.parse_response) and the json module's       *)
(* decoder it relies on.  A text is the sequence of its characters;        *)
(* positions are counted from 0 as in the code.                            *)
(***************************************************************************)
\* the backquote character
Backquote == "backquote"

\* the code fence: three backquotes
FENCE == <<Backquote, Backquote, Backquote>>

\* the code fence that names json
FENCE_JSON == FENCE \o <<"j", "s", "o", "n">>

\* the characters str.strip and the JSON decoder skip
Whitespace == {" ", "\n"}

MinOf(S) == CHOOSE x \in S : \A y \in S : x <= y

MaxOf(S) == CHOOSE x \in S : \A y \in S : x >= y

\* s[i]
At(s, i) == s[i + 1]

\* s[i:i+1]: the character at i, or "" beyond the end
CharAt(s, i) == IF i >= 0 /\ i < Len(s) THEN s[i + 1] ELSE ""

\* s[a:b] for 0 <= a
Slice(s, a, b) == SubSeq(s, a + 1, IF b > Len(s) THEN Len(s) ELSE b)

\* s[i:].startswith(pat)
StartsAt(s, pat, i) ==
    /\ i + Len(pat) <= Len(s)
    /\ SubSeq(s, i + 1, i + Len(pat)) = pat

\* s.find(pat, from)
Find(s, pat, from) ==
    LET hits == {i \in from..(Len(s) - Len(pat)) : StartsAt(s, pat, i)}
    IN IF hits = {} THEN -1 ELSE MinOf(hits)

\* s.rfind(pat)
RFind(s, pat) ==
    LET hits == {i \in 0..(Len(s) - Len(pat)) : StartsAt(s, pat, i)}
    IN IF hits = {} THEN -1 ELSE MaxOf(hits)

\* s.strip()
PyStrip(s) ==
    LET keep == {i \in 1..Len(s) : s[i] \notin Whitespace}
    IN IF keep = {} THEN <<>> ELSE SubSeq(s, MinOf(keep), MaxOf(keep))

\* s.rstrip()
PyRStrip(s) ==
    LET keep == {i \in 1..Len(s) : s[i] \notin Whitespace}
    IN IF keep = {} THEN <<>> ELSE SubSeq(s, 1, MaxOf(keep))

\* s.rstrip(",")
RStripCommas(s) ==
    LET keep == {i \in 1..Len(s) : s[i] # ","}
    IN IF keep = {} THEN <<>> ELSE SubSeq(s, 1, MaxOf(keep))

\* s.count(c) for a character c
CountChar(s, c) == Cardinality({i \in 1..Len(s) : s[i] = c})

\* s.split("\n")
RECURSIVE SplitNewline(_)
SplitNewline(s) ==
    LET nl == Find(s, <<"\n">>, 0)
    IN IF nl < 0 THEN <<s>>
       ELSE <<Slice(s, 0, nl)>> \o SplitNewline(Slice(s, nl + 1, Len(s)))

\* s.splitlines(): no line for the empty text or after a final newline
SplitLines(s) ==
    LET parts == SplitNewline(s)
    IN IF parts[Len(parts)] = <<>> THEN SubSeq(parts, 1, Len(parts) - 1) ELSE parts

\* "\n".join(lines)
RECURSIVE JoinLines(_)
JoinLines(lines) ==
    IF Len(lines) = 0 THEN <<>>
    ELSE IF Len(lines) = 1 THEN lines[1]
    ELSE lines[1] \o <<"\n">> \o JoinLines(Tail(lines))

\* what a decoding routine hands back: the value and the position after it,
\* or the position JSONDecodeError reports
Decoded(value, end) == [ok |-> TRUE, value |-> value, end |-> end, pos |-> 0]

DecodeError(pos) == [ok |-> FALSE, value |-> NoneV, end |-> 0, pos |-> pos]

\* the end of the whitespace that starts at i
SkipWhitespace(s, i) ==
    LET stops == {j \in i..Len(s) : j = Len(s) \/ At(s, j) \notin Whitespace}
    IN IF i >= Len(s) THEN i ELSE MinOf(stops)

\* json.decoder.scanstring in strict mode, from the position after the
\* opening quote
scanstring(s, begin) ==
    LET stops == {j \in begin..(Len(s) - 1) : At(s, j) \in {"\"", "\n"}}
    IN IF stops = {} THEN DecodeError(begin - 1)
       ELSE IF At(s, MinOf(stops)) = "\n" THEN DecodeError(MinOf(stops))
       ELSE Decoded(Str(Slice(s, begin, MinOf(stops))), MinOf(stops) + 1)

\* the integer written as k digits 1
RECURSIVE Ones(_)
Ones(k) == IF k = 0 THEN 0 ELSE 10 * Ones(k - 1) + 1

\* The scanner and the object decoder call each other; Decode is the two of
\* them as one recursion: part names the routine entered.
\*   "scan_once"   json.scanner: the value that starts at i
\*   "JSONObject"  json.decoder.JSONObject, from the position after the
\*                 opening brace
\*   "pairs"       the loop of JSONObject over "key": value pairs, from the
\*                 position after the opening quote of a key; pairs holds the
\*                 pairs read so far
RECURSIVE Decode(_, _, _, _)
Decode(part, s, i, pairs) ==
    IF part = "scan_once"
    THEN IF i >= Len(s) THEN DecodeError(i)
         ELSE IF At(s, i) = "\"" THEN scanstring(s, i + 1)
         ELSE IF At(s, i) = "{" THEN Decode("JSONObject", s, i + 1, NoKeys)
         ELSE IF At(s, i) = "1"
              THEN LET end == MinOf({j \in (i + 1)..Len(s) : j = Len(s) \/ At(s, j) # "1"})
                   IN Decoded(Num(Ones(end - i)), end)
         ELSE DecodeError(i)
    ELSE IF part = "JSONObject"
    THEN LET e1 == IF CharAt(s, i) \in Whitespace THEN SkipWhitespace(s, i) ELSE i
         IN IF CharAt(s, e1) = "}" THEN Decoded(EmptyDict, e1 + 1)
            ELSE IF CharAt(s, e1) # "\"" THEN DecodeError(e1)
            ELSE Decode("pairs", s, e1 + 1, NoKeys)
    ELSE LET key == scanstring(s, i)
             e2  == IF CharAt(s, key.end) # ":" THEN SkipWhitespace(s, key.end) ELSE key.end
             e4  == SkipWhitespace(s, e2 + 1)
             val == Decode("scan_once", s, e4, NoKeys)
             e6  == IF CharAt(s, val.end) \in Whitespace
                    THEN SkipWhitespace(s, val.end + 1) ELSE val.end
             e8  == SkipWhitespace(s, e6 + 1)
             \* dict(pairs): a later pair with the same key replaces the earlier
             got == (key.value.v :> val.value) @@ pairs
         IN IF ~key.ok THEN key
            ELSE IF CharAt(s, e2) # ":" THEN DecodeError(e2)
            ELSE IF ~val.ok THEN val
            ELSE IF CharAt(s, e6) = "}" THEN Decoded(Dict(got), e6 + 1)
            ELSE IF CharAt(s, e6) # "," THEN DecodeError(e6)
            ELSE IF CharAt(s, e8) # "\"" THEN DecodeError(e8)
            ELSE Decode("pairs", s, e8 + 1, got)

\* json.scanner: the value that starts at idx
scan_once(s, idx) == Decode("scan_once", s, idx, NoKeys)

\* json.loads, once the value that starts the text is decoded: nothing but
\* whitespace may follow it
EndOfDocument(s, r) ==
    IF ~r.ok THEN r
    ELSE IF SkipWhitespace(s, r.end) # Len(s) THEN DecodeError(SkipWhitespace(s, r.end))
    ELSE r

\* json.loads
loads(s) == EndOfDocument(s, scan_once(s, SkipWhitespace(s, 0)))

\* what parse_response returns or raises
Parsed(value) == [kind |-> "returned", value |-> value, msg |-> "-"]

\* msg is the fixed part of the message
Raises(error, msg) == [kind |-> error, value |-> NoneV, msg |-> msg]

\* try: return json.loads(...)  except json.JSONDecodeError: otherwise
ReturnOr(r, otherwise) == IF r.ok THEN Parsed(r.value) ELSE otherwise

\* Step 1 of parse_response: the text inside a code fence, if there is one
StripFence(text) ==
    LET clean == PyStrip(text)
        from(tag) ==
            LET start == Find(clean, tag, 0) + Len(tag)
                end   == Find(clean, FENCE, start)
            IN IF end > start THEN PyStrip(Slice(clean, start, end)) ELSE clean
    IN IF Find(clean, FENCE_JSON, 0) >= 0 THEN from(FENCE_JSON)
       ELSE IF Find(clean, FENCE, 0) >= 0 THEN from(FENCE)
       ELSE clean

\* a line of the candidate: stripped, without a leading "- "
CandidateLine(line) ==
    IF StartsAt(PyStrip(line), <<"-", " ">>, 0)
    THEN PyStrip(Slice(PyStrip(line), 2, Len(PyStrip(line))))
    ELSE PyStrip(line)

\* candidate_lines: the lines that are not blank
CandidateLines(text) ==
    LET kept == SelectSeq(SplitLines(text), LAMBDA l : PyStrip(l) # <<>>)
    IN [i \in 1..Len(kept) |-> CandidateLine(kept[i])]

\* candidate_text gets an opening brace if it has none ...
Opened(joined) ==
    IF StartsAt(joined, <<"{">>, 0) THEN joined ELSE <<"{", "\n">> \o joined

\* ... and a closing brace
Closed(opened) ==
    IF Len(PyRStrip(opened)) > 0 /\ PyRStrip(opened)[Len(PyRStrip(opened))] = "}"
    THEN opened
    ELSE RStripCommas(PyRStrip(opened)) \o <<"\n", "}">>

\* lines 59-84: no object found; key/value lines are wrapped and tried
AutoWrap(text) ==
    IF Len(CandidateLines(text)) = 0 THEN Raises("ValueError", "No valid JSON object found")
    ELSE ReturnOr(loads(Closed(Opened(JoinLines(CandidateLines(text))))),
                  Raises("ValueError", "No valid JSON object found"))

\* line.count('{') - line.count('}')
BraceBalance(line) == CountChar(line, "{") - CountChar(line, "}")

\* stripped[brace_pos:] of a line that holds a brace
BraceTail(line) ==
    Slice(PyStrip(line), Find(PyStrip(line), <<"{">>, 0), Len(PyStrip(line)))

\* what the loop of Step 5 ends with: the value a line parsed to, or the
\* lines collected
Collected(returned, value, lines) ==
    [returned |-> returned, value |-> value, lines |-> lines]

\* lines 122-127: a first line whose braces balance is tried on its own
TryLine(r, otherwise) == IF r.ok THEN Collected(TRUE, r.value, <<>>) ELSE otherwise

\* the loop of Step 5 from line i on
RECURSIVE CollectLines(_, _, _, _, _)
CollectLines(lines, i, json_lines, brace_count, in_json) ==
    IF i > Len(lines) THEN Collected(FALSE, NoneV, json_lines)
    ELSE IF in_json
    THEN IF brace_count + BraceBalance(lines[i]) <= 0
         THEN Collected(FALSE, NoneV, Append(json_lines, lines[i]))
         ELSE CollectLines(lines, i + 1, Append(json_lines, lines[i]),
                           brace_count + BraceBalance(lines[i]), TRUE)
    ELSE IF Find(PyStrip(lines[i]), <<"{">>, 0) < 0
    THEN CollectLines(lines, i + 1, json_lines, brace_count, FALSE)
    ELSE TryLine(IF BraceBalance(BraceTail(lines[i])) <= 0
                 THEN loads(BraceTail(lines[i])) ELSE DecodeError(0),
                 CollectLines(lines, i + 1, <<BraceTail(lines[i])>>,
                              BraceBalance(BraceTail(lines[i])), TRUE))

\* lines 144-150: the text between the first '{' and the last '}'
ParseBetweenBraces(text, start, end) ==
    IF start >= 0 /\ end > start
    THEN ReturnOr(loads(Slice(text, start, end + 1)), Raises("JSONDecodeError", "JSON parsing failed after all cleanup attempts"))
    ELSE Raises("JSONDecodeError", "JSON parsing failed after all cleanup attempts")

\* lines 135-159: the collected lines are joined and parsed
ParseCollected(c) ==
    IF c.returned THEN Parsed(c.value)
    ELSE IF Len(c.lines) = 0 THEN Raises("JSONDecodeError", "JSON parsing failed after all cleanup attempts")
    ELSE ReturnOr(loads(JoinLines(c.lines)),
                  ParseBetweenBraces(JoinLines(c.lines),
                                     Find(JoinLines(c.lines), <<"{">>, 0),
                                     RFind(JoinLines(c.lines), <<"}">>)))

\* Step 5: line-by-line extraction from the original response
LineByLine(original) ==
    ParseCollected(CollectLines(SplitNewline(original), 1, <<>>, 0, FALSE))

\* Step 4: the object is parsed; an error near its end is a truncation
ParseObject(response, object, r) ==
    IF r.ok THEN Parsed(r.value)
    ELSE IF r.pos >= Len(object) - 10 THEN Raises("ValueError", "JSON appears truncated")
    ELSE LineByLine(response)

\* Step 2 without the truncation test of lines 47-57
FindBoundariesUnchecked(response, clean, start_idx, end_idx) ==
    IF start_idx < 0 \/ end_idx <= start_idx THEN AutoWrap(clean)
    ELSE ParseObject(response, PyRStrip(Slice(clean, start_idx, end_idx + 1)),
                     loads(PyRStrip(Slice(clean, start_idx, end_idx + 1))))

\* Step 2: the text from the first '{' to the last '}'.  Step 3 leaves it
\* alone, for it starts with '{'; rstrip is applied before Step 4.
FindBoundaries(response, clean, start_idx, end_idx) ==
    IF /\ start_idx >= 0
       /\ end_idx <= start_idx
       /\ RFind(clean, <<":">>) > RFind(clean, <<",">>)
       /\ RFind(clean, <<":">>) > start_idx
    THEN Raises("ValueError", "Response appears truncated - no closing brace found")
    ELSE IF start_idx < 0 \/ end_idx <= start_idx THEN AutoWrap(clean)
    ELSE ParseObject(response, PyRStrip(Slice(clean, start_idx, end_idx + 1)),
                     loads(PyRStrip(Slice(clean, start_idx, end_idx + 1))))

\* the steps of parse_response after Step 1
ParseClean(response, clean) ==
    FindBoundaries(response, clean, Find(clean, <<"{">>, 0), RFind(clean, <<"}">>))

\* JSONParser.parse_response
parse_response(response) ==
    IF Len(response) = 0 \/ PyStrip(response) = <<>>
    THEN Raises("ValueError", "Empty response received")
    ELSE ParseClean(response, StripFence(response))

\* the characters a string value is made of
ValueChars == {Backquote, "{", "}"}

\* the string values of length at most MaxString
JsonStrings == UNION {[1..n -> ValueChars] : n \in 0..MaxString}

\* the values of a mapping given to json.dumps: strings and the number 1
JsonValues == {Str(s) : s \in JsonStrings} \cup {Num(1)}

\* the keys, in the order the mapping was built
JsonKeys == << <<"a">>, <<"b">> >>

\* the mappings: {}, {"a": v} and {"a": v, "b": w}
Mappings ==
    {Dict(f) : f \in UNION {[{JsonKeys[i] : i \in 1..n} -> JsonValues] : n \in 0..Len(JsonKeys)}}

\* json.dumps of a value
DumpValue(v) ==
    IF v.t = "str" THEN <<"\"">> \o v.v \o <<"\"">> ELSE <<"1">>

\* json.dumps of the pairs of f from key i on, with the default separators
RECURSIVE DumpPairs(_, _)
DumpPairs(f, i) ==
    IF i > Len(JsonKeys) \/ JsonKeys[i] \notin DOMAIN f THEN <<>>
    ELSE (IF i > 1 THEN <<",", " ">> ELSE <<>>)
         \o <<"\"">> \o JsonKeys[i] \o <<"\"", ":", " ">> \o DumpValue(f[JsonKeys[i]])
         \o DumpPairs(f, i + 1)

\* json.dumps(m)
dumps(m) == <<"{">> \o DumpPairs(m.v, 1) \o <<"}">>

\* the serialization inside a json code fence
Fenced(text) == FENCE_JSON \o <<"\n">> \o text \o <<"\n">> \o FENCE

\* the characters of the string values of a response that is cut off
CutChars == {"x", ",", "}"}

CutValues == {Str(s) : s \in UNION {[1..n -> CutChars] : n \in 0..MaxCut}} \cup {Num(1)}

\* the mappings whose serialization is cut off
CutMappings ==
    {Dict(f) : f \in UNION {[{JsonKeys[i] : i \in 1..n} -> CutValues] : n \in 0..Len(JsonKeys)}}

\* a response whose json fence was opened and never closed
OpenFence(text) == FENCE_JSON \o <<"\n">> \o text

ParserInit ==
    /\ req = Request(<<"h","b","l">>, NoneStr, NoneStr, "long", NoneV, NoneStr)
    /\ pc = "call"
    /\ st = InitialState(req)
    /\ stateDir = NoDir
    /\ PipelineIdle
    /\ ServiceIdle
    /\ arg \in Mappings \cup CutMappings
    /\ res = NoneV

\* the parser is given text and res becomes what it returned or raised
ParseText(form, text) ==
    /\ res = NoneV
    /\ res' = [form |-> form, text |-> text, out |-> parse_response(text)]
    /\ UNCHANGED <<req, pc, st, stateDir, files, writing, faults, saveCalls, executed,
                   raisedIn, unsaved, outcome, rd, qres, calls, arg>>
    /\ UNCHANGED serviceVars

\* parse_response(json.dumps(m))
ParseSerialized == ParseText("serialized", dumps(arg))

\* parse_response of the serialization inside a json fence
ParseFenced == ParseText("fenced", Fenced(dumps(arg)))

\* parse_response of a response that stops after cut characters
ParseTruncated ==
    /\ arg \in CutMappings
    /\ \E cut \in 1..(Len(dumps(arg)) - 1) :
          ParseText("truncated", SubSeq(dumps(arg), 1, cut))

\* the same inside a json fence that is never closed
ParseTruncatedFenced ==
    /\ arg \in CutMappings
    /\ \E cut \in 1..(Len(dumps(arg)) - 1) :
          ParseText("truncated", OpenFence(SubSeq(dumps(arg), 1, cut)))

ParserNext == ParseSerialized \/ ParseFenced \/ ParseTruncated \/ ParseTruncatedFenced

ParserSpec == ParserInit /\ [][ParserNext]_vars

(***************************************************************************)
(* ExtractStep.execute called on the states a caller can hand it, with     *)
(* every way the LLM calls can end.                                        *)
(***************************************************************************)
\* the extraction models a state can name
ExtractModels == {NoneStr, AUTO, DEFAULT_EXTRACTION_MODEL, GEMINI_PRO, GEMINI_FLASH}

\* the states Extract is called on
ExtractInputs ==
    {[InitialState(r) EXCEPT !.extraction_model = m, !.pdf_text = t, !.pdf_path = p,
                             !.token_usage = tu] :
        r \in {Request(<<"h","b","l">>, NoneStr, NoneStr, "long", Num(50), NoneStr)},
        m \in ExtractModels,
        t \in {"none", "empty", "blank", "short", "long"},
        p \in {NoneStr, PdfPath},
        tu \in {NoneV, FreshTokenUsage}}

\* how the calls end: the text call, and the PDF calls in the order made
ExtractEnv ==
    [text : {"ok", "error"},
     pdf  : [1..(1 + Len(ExtractFallbackModels)) -> {"ok", "quota", "error"}]]

\* preferred_model=extraction_model if is_multimodal else None
PreferredModel(s) ==
    IF is_multimodal_model(get_extraction_model(s.extraction_model))
    THEN get_extraction_model(s.extraction_model) ELSE NoneStr

\* the data a call returns names the call: 0 the text call, n the n-th PDF call
DataOf(n) == Dict("eps" :> Num(n))

\* what the calls hand to execute
ExtractLLMOf(s, env) ==
    [ok       |-> env.text = "ok",
     first_ok |-> extract_with_pdf(PreferredModel(s), env.pdf).by,
     data     |-> DataOf(IF UsePdf(s) THEN extract_with_pdf(PreferredModel(s), env.pdf).by ELSE 0),
     usage    |-> DirectUsage]

\* the LLM calls execute makes: lines 43-88
ExtractCalls(s, env) ==
    IF UsePdf(s)
    THEN [via |-> "call_llm_with_pdf",
          models |-> extract_with_pdf(PreferredModel(s), env.pdf).calls,
          last_error |-> extract_with_pdf(PreferredModel(s), env.pdf).last_error]
    ELSE [via |-> "call_llm_with_json_response",
          models |-> <<get_extraction_model(s.extraction_model)>>,
          last_error |-> 0]

ExtractInit ==
    /\ req = Request(<<"h","b","l">>, NoneStr, NoneStr, "long", Num(50), NoneStr)
    /\ pc = "direct"
    /\ st \in ExtractInputs
    /\ arg = st
    /\ res = NoneV
    /\ stateDir = setup_state_dir(req.symbol, NoneStr, NoneStr)
    /\ PipelineIdle
    /\ ServiceIdle

\* extract_step.execute(state): arg keeps the state it was called on, res the
\* calls it made
CallExtract ==
    /\ pc = "direct"
    /\ res = NoneV
    /\ \E env \in ExtractEnv :
          /\ StepEffectOn("extract", ExtractStep_execute(st, ExtractLLMOf(st, env)))
          /\ res' = [env |-> env, made |-> ExtractCalls(st, env)]
    /\ UNCHANGED <<pc, calls, arg>>

ExtractNext == CallExtract \/ FinishSave

ExtractSpec == ExtractInit /\ [][ExtractNext]_vars

(***************************************************************************)
(* ValidateStep.execute called on the states Extract and Calculate can     *)
(* leave, and on a state whose calculated_metrics names a key the          *)
(* validator reads.                                                        *)
(***************************************************************************)
\* BalancedData as the extraction returns it when the share count is null
BalancedNullShares == BalancedData @@ ("shares_outstanding" :> NoneV) @@ ("eps" :> Num(10))

\* a calculated mapping that restates two keys of BalancedData
RestatedEquity == ("shareholders_equity" :> Num(300)) @@ ("net_income" :> Num(500))

ValidateExtracted ==
    {NoneV, OtherV, EmptyDict, Dict(ScenarioData), Dict(BalancedData),
     Dict(BalancedNullShares), DictT(BalancedData, {"validate"})}

\* calculated_metrics as Calculate leaves it for the extracted data e, or as a
\* caller of the step sets it
ValidateCalculated(e) ==
    {NoneV, EmptyDict, Dict(RestatedEquity)}
    \cup (IF e # NoneV /\ IsDict(e) THEN {Dict(CalculatedMetrics(e.v, Num(50)))} ELSE {})

ValidateInputs ==
    {[InitialState(r) EXCEPT !.extracted_data = e, !.calculated_metrics = c,
                             !.errors = errs, !.pdf_path = path] :
        r \in {Request(<<"h","b","l">>, NoneStr, NoneStr, "short", Num(50), NoneStr)},
        path \in {NoneStr, PdfPath},
        e \in ValidateExtracted,
        c \in UNION {ValidateCalculated(x) : x \in ValidateExtracted},
        errs \in {<<>>, <<"Extraction error: ">>}}

ValidateInit ==
    /\ req = Request(<<"h","b","l">>, NoneStr, NoneStr, "short", Num(50), NoneStr)
    /\ pc = "direct"
    /\ st \in ValidateInputs
    /\ arg = st
    /\ res = NoneV
    /\ stateDir = setup_state_dir(req.symbol, NoneStr, NoneStr)
    /\ PipelineIdle
    /\ ServiceIdle

\* validate_step.execute(state): arg keeps the state it was called on
CallValidate ==
    /\ pc = "direct"
    /\ res = NoneV
    /\ StepEffectOn("validate", ValidateStep_execute(st))
    /\ res' = [called |-> "validate"]
    /\ UNCHANGED <<pc, calls, arg>>

ValidateNext == CallValidate \/ FinishSave

ValidateSpec == ValidateInit /\ [][ValidateNext]_vars

(***************************************************************************)
(* CalculateStep.execute called on extracted mappings whose operands are   *)
(* absent, null, zero, positive or negative.                               *)
(***************************************************************************)
\* the values each operand takes
OperandChoices ==
    [net_income          : {Absent, NoneV, Num(0), Num(100)},
     shareholders_equity : {Absent, Num(0), Num(50), Num(-50)},
     total_assets        : {Absent, Num(200), Num(-200)},
     eps                 : {Absent, Num(0), Num(10), Num(-10)},
     current_assets      : {Absent, Num(0), Num(30)},
     current_liabilities : {Absent, Num(0), Num(20)}]

\* the mapping with the keys of ch that are not left out
DataWith(ch) == [k \in {x \in DOMAIN ch : ch[x] # Absent} |-> ch[k]]

CalculateInputs ==
    {[InitialState(r) EXCEPT !.extracted_data = Dict(DataWith(ch)), !.stock_price = sp] :
        r \in {Request(<<"h","b","l">>, NoneStr, NoneStr, "long", Num(50), NoneStr)},
        ch \in OperandChoices,
        sp \in {NoneV, Num(50)}}

CalculateInit ==
    /\ req = Request(<<"h","b","l">>, NoneStr, NoneStr, "long", Num(50), NoneStr)
    /\ pc = "direct"
    /\ st \in CalculateInputs
    /\ arg = st
    /\ res = NoneV
    /\ stateDir = setup_state_dir(req.symbol, NoneStr, NoneStr)
    /\ PipelineIdle
    /\ ServiceIdle

\* calculate_step.execute(state): arg keeps the state it was called on
CallCalculate ==
    /\ pc = "direct"
    /\ res = NoneV
    /\ StepEffectOn("calculate", CalculateStep_execute(st))
    /\ res' = [called |-> "calculate"]
    /\ UNCHANGED <<pc, calls, arg>>

CalculateNext == CallCalculate \/ FinishSave

CalculateSpec == CalculateInit /\ [][CalculateNext]_vars

(***************************************************************************)
(* A run for a key whose state directory holds the snapshots of an earlier *)
(* run: setup_state_dir creates the directory when it is missing and       *)
(* leaves what is in it.                                                   *)
(***************************************************************************)
\* the snapshots a run of request r saves when every write succeeds, as
\* <<name, state>>
RunSnapshots(r, xl, al) ==
    LET s0 == InitialState(r)
        e1 == ExtractStep_execute(s0, xl)
        e2 == CalculateStep_execute(e1.st)
        e3 == ValidateStep_execute(e2.st)
        e4 == AnalyzeStep_execute(e3.st, al)
        e5 == FormatStep_execute(e4.st)
        returned == [extract |-> e1, calculate |-> e2, validate |-> e3,
                    analyze |-> e4, format |-> e5]
    IN {<<"00_initial", s0>>, <<"99_final", e5.st>>}
       \cup {<<SnapshotName[n], returned[n].st>> : n \in {x \in Nodes : returned[x].saved}}

\* the files of an earlier run of r; every snapshot of the later run is newer
LeftFiles(r, xl, al) ==
    {[dir |-> setup_state_dir(r.symbol, NoneStr, NoneStr), step |-> p[1],
      status |-> "full", mtime |-> 0, data |-> Snapshot(p[2], p[1])] :
        p \in RunSnapshots(r, xl, al)}

RerunInit ==
    /\ req \in {Request(sym, AUTO, AUTO, "long", NoneV, PdfPath) : sym \in Symbols}
    /\ pc = "start"
    /\ st = InitialState(req)
    /\ stateDir = NoDir
    /\ files \in {LeftFiles(req, xl, al) : xl \in WatchedExtractLLM, al \in WatchedAnalyzeLLM}
    /\ writing = NoStep
    /\ faults = 0
    /\ saveCalls = <<>>
    /\ executed = <<>>
    /\ raisedIn = {}
    /\ unsaved = {}
    /\ outcome = NoOutcome
    /\ rd = ClosedStream
    /\ qres = NoAnswer
    /\ calls = 0
    /\ ServiceIdle
    /\ CallIdle

\* a client opens the stream once the run has been started
StreamOpenStarted == pc # "start" /\ StreamOpen

RerunNext ==
    \/ AnalyzeBegin
    \/ Extract(WatchedExtractLLM)
    \/ Calculate
    \/ Validate
    \/ Analyze(WatchedAnalyzeLLM)
    \/ Format
    \/ Finalize
    \/ Return
    \/ FinishSave
    \/ StreamOpenStarted
    \/ StreamList
    \/ StreamRead
    \/ StreamTimeout

RerunSpec == RerunInit /\ [][RerunNext]_vars

(***************************************************************************)
(* analyze_stock called again and again for one key by one worker, each    *)
(* call running the pipeline itself when the repository has no result.     *)
(***************************************************************************)
\* the statement name of the latest report of the key
LatestStatement == "Annual_2024"

\* the call numbered n for the key of req
CallOf(n) ==
    [call |-> n, symbol |-> Upper(req.symbol), statement |-> LatestStatement,
     extraction_model |-> req.extraction_model, analysis_model |-> req.analysis_model]

\* text the PDF text extraction yields ("empty": nothing usable, the text
\* handed to analyze is "")
ExtractedTexts == {"long", "empty"}

\* analyze_stock up to the call of LangGraphAnalyzer.analyze: the report
\* lookup, the cache lookup, the download and the text extraction
AnalyzeStockCall ==
    /\ pc = "service"
    /\ svcCalls < MaxServiceCalls
    /\ svcCalls' = svcCalls + 1
    /\ \E found \in BOOLEAN, downloaded \in BOOLEAN, text \in ExtractedTexts :
          LET j == CallOf(svcCalls + 1)
          IN IF ~found
             THEN /\ ret' = Returned(1, [j EXCEPT !.statement = "-"], "no_report", NoResult, FALSE)
                  /\ UNCHANGED <<req, pc, st, stateDir, saveCalls, executed, raisedIn,
                                 unsaved, outcome>>
             ELSE IF has_result(CacheDir(req), LatestStatement)
             THEN /\ ret' = Returned(1, j, "cached",
                                     get_result(CacheDir(req), LatestStatement), FALSE)
                  /\ UNCHANGED <<req, pc, st, stateDir, saveCalls, executed, raisedIn,
                                 unsaved, outcome>>
             ELSE IF ~downloaded
             THEN /\ ret' = Returned(1, j, "error", NoResult, TRUE)
                  /\ UNCHANGED <<req, pc, st, stateDir, saveCalls, executed, raisedIn,
                                 unsaved, outcome>>
             ELSE /\ req' = [req EXCEPT !.pdf_text = text]
                  /\ pc' = "start"
                  /\ st' = InitialState(req')
                  /\ stateDir' = NoDir
                  /\ saveCalls' = <<>>
                  /\ executed' = <<>>
                  /\ raisedIn' = {}
                  /\ unsaved' = {}
                  /\ outcome' = NoOutcome
                  /\ UNCHANGED ret
    /\ UNCHANGED <<files, writing, faults, rd, qres, calls>>
    /\ UNCHANGED <<results, jobs, completed, touched>>
    /\ UNCHANGED callVars

\* analyze_stock once analyze has returned or raised: save_result and status
\* analyzed, or status error
AnalyzeStockStore ==
    /\ pc = "done"
    /\ LET j == CallOf(svcCalls)
       IN IF outcome.kind = "returned"
          THEN /\ results' = save_result(CacheDir(req), LatestStatement, outcome.value)
               /\ ret' = Returned(1, j, "analyzed", outcome.value, TRUE)
               /\ completed' = completed \cup {[request |-> RequestOf(j), report |-> outcome.value]}
          ELSE /\ ret' = Returned(1, j, "error", NoResult, TRUE)
               /\ UNCHANGED <<results, completed>>
    /\ pc' = "service"
    /\ UNCHANGED <<req, st, stateDir, files, writing, faults, saveCalls, executed,
                   raisedIn, unsaved, outcome, rd, qres, calls>>
    /\ UNCHANGED <<jobs, touched, svcCalls>>
    /\ UNCHANGED callVars

CacheInit ==
    /\ req = Request(<<"h","b","l">>, AUTO, AUTO, "long", NoneV, PdfPath)
    /\ pc = "service"
    /\ st = InitialState(req)
    /\ stateDir = NoDir
    /\ InitCommon

CacheNext ==
    \/ AnalyzeStockCall
    \/ AnalyzeBegin
    \/ Extract(WatchedExtractLLM)
    \/ Calculate
    \/ Validate
    \/ Analyze(WatchedAnalyzeLLM)
    \/ Format
    \/ Finalize
    \/ Return
    \/ FinishSave
    \/ AnalyzeStockStore

CacheSpec == CacheInit /\ [][CacheNext]_vars

(***************************************************************************)
(* Properties of the pipeline.                                             *)
(***************************************************************************)
\* the order the graph fixes
StepOrder == <<"extract", "calculate", "validate", "analyze", "format">>

SnapshotOrder == <<"00_initial", "01_extract", "02_calculate", "03_validate",
                   "04_analyze", "05_format", "99_final">>

IsPrefix(s, t) == Len(s) <= Len(t) /\ s = SubSeq(t, 1, Len(s))

\* the run went through the workflow (the guard of analyze did not reject it)
RanPipeline == pc = "done" /\ stateDir # NoDir

\* what each step's error boundary writes: its prefix, its output key, its default
ErrorPrefix ==
    [extract |-> "Extraction error: ", calculate |-> "Calculation error: ",
     validate |-> "Validation error: ", analyze |-> "Analysis error: ",
     format |-> "Report formatting error: "]

OutputKey ==
    [extract |-> "extracted_data", calculate |-> "calculated_metrics",
     validate |-> "validation_results", analyze |-> "analysis_results",
     format |-> "final_report"]

EmptyDefault ==
    [extract |-> EmptyDict, calculate |-> EmptyDict, validate |-> EmptyDict,
     analyze |-> EmptyDict, format |-> Str(<<>>)]

Occurrences(seq, x) == Cardinality({i \in 1..Len(seq) : seq[i] = x})

\* C1: a step whose body raised left exactly one entry with its prefix in
\* state.errors and its output key at the empty default, no other entry was
\* added, the run still went through all five steps, and after a failed
\* Extract, Calculate ran without raising and produced {} metrics.
C1_StepIsolation ==
    /\ \A n \in Nodes :
          /\ Occurrences(st.errors, ErrorPrefix[n]) = (IF n \in raisedIn THEN 1 ELSE 0)
          /\ n \in raisedIn => st[OutputKey[n]] = EmptyDefault[n]
    /\ Len(st.errors) = Cardinality(raisedIn)
    /\ (raisedIn # {} /\ RanPipeline) => executed = StepOrder
    /\ ("extract" \in raisedIn /\ Occurrences(executed, "calculate") > 0)
          => "calculate" \notin raisedIn /\ st.calculated_metrics = EmptyDict

C1_Witness ==
    /\ RanPipeline
    /\ "extract" \in raisedIn
    /\ st.extracted_data = EmptyDict
    /\ st.calculated_metrics = EmptyDict
    /\ executed = StepOrder

\* C3: the nodes executed so far are an initial part of Extract, Calculate,
\* Validate, Analyze, Format and the snapshots saved so far an initial part
\* of 00_initial .. 99_final, each node's snapshot following its execution;
\* a finished run executed all five and saved all seven.
C3_FixedOrder ==
    /\ IsPrefix(executed, StepOrder)
    /\ IsPrefix(saveCalls, SnapshotOrder)
    /\ stateDir # NoDir => Len(saveCalls) = Len(executed) + (IF pc \in {"return", "done"} THEN 2 ELSE 1)
    /\ stateDir = NoDir => executed = <<>> /\ saveCalls = <<>>
    /\ RanPipeline => executed = StepOrder /\ saveCalls = SnapshotOrder

C3_Witness ==
    /\ RanPipeline
    /\ raisedIn = {"extract", "analyze"}
    /\ executed = StepOrder
    /\ saveCalls = SnapshotOrder

\* the analyze call ended with the terminal error "Analysis errors: ..."
TerminalError == outcome.kind = "raised" /\ outcome.msg # <<>> /\ outcome.msg[1] = "Analysis errors: "

\* C4: a run that went through the workflow ends with the terminal error
\* exactly when state.errors is non-empty after Format and otherwise returns
\* state.final_report; the terminal error is raised only once save_state has
\* been called for 99_final with the final state and has returned (with no
\* write failure the complete file is on disk), and its message carries every
\* accumulated error, in order.
C4_TerminalError ==
    /\ RanPipeline =>
          /\ TerminalError <=> st.errors # <<>>
          /\ st.errors = <<>> =>
                outcome.kind = "returned" /\ outcome.value = st.final_report
                /\ outcome.value.t = "str"
    /\ TerminalError =>
          /\ executed = StepOrder
          /\ saveCalls # <<>> /\ saveCalls[Len(saveCalls)] = "99_final"
          /\ writing = NoStep
          /\ faults = 0 =>
                /\ HasFile(stateDir, "99_final")
                /\ FileAt(stateDir, "99_final").status = "full"
                /\ FileAt(stateDir, "99_final").data.errors = st.errors
          /\ Len(outcome.msg) = 2 * Len(st.errors)
          /\ \A i \in 1..Len(st.errors) : outcome.msg[2 * i] = st.errors[i]
    /\ outcome.kind = "returned" => RanPipeline

C4_Witness ==
    /\ TerminalError
    /\ Len(st.errors) >= 2
    /\ HasFile(stateDir, "99_final")
    /\ FileAt(stateDir, "99_final").status = "full"

\* C5: the directory the snapshots of a run go to is the states directory
\* under the directory that holds the cached result of the run's request.
C5_StateDirUnderCacheDir ==
    stateDir # NoDir => stateDir = CacheDir(req) \o <<STATES>>

RECURSIVE SumField(_, _, _)
\* the sum of one field over the entries of token_usage.steps named in keys
SumField(steps, keys, field) ==
    IF keys = {} THEN 0
    ELSE LET k == CHOOSE k \in keys : TRUE
         IN steps[k][field] + SumField(steps, keys \ {k}, field)

TokenFields == {"prompt_tokens", "completion_tokens", "total_tokens"}

Accounted(tu) ==
    \A field \in TokenFields :
        tu.cumulative[field] = SumField(tu.steps, DOMAIN tu.steps, field)

\* C10: in the live state and in every snapshot written, each cumulative
\* token count is the sum of that count over the entries of steps; a step
\* has an entry exactly when it ran without raising, so a failed step adds
\* to neither side and two successful steps give extract plus analyze.
C10_TokenAccounting ==
    /\ Accounted(st.token_usage)
    /\ \A f \in files : Accounted(f.data.token_usage)
    /\ DOMAIN st.token_usage.steps =
          {n \in {"extract", "analyze"} : Occurrences(executed, n) > 0 /\ n \notin raisedIn}
    /\ DOMAIN st.token_usage.steps = {"extract", "analyze"} =>
          \A field \in TokenFields :
              st.token_usage.cumulative[field] =
                  st.token_usage.steps.extract[field] + st.token_usage.steps.analyze[field]

C10_Witness ==
    /\ RanPipeline
    /\ DOMAIN st.token_usage.steps = {"extract", "analyze"}
    /\ st.token_usage.steps.extract.prompt_tokens = 1
    /\ st.token_usage.steps.analyze.completion_tokens = 1
    /\ st.token_usage.cumulative.total_tokens >= 2
    /\ HasFile(stateDir, "99_final")
    /\ FileAt(stateDir, "99_final").data.token_usage = st.token_usage

\* C2: every call of a step's execute has called save_state with the step's
\* fixed name by the time it returns: the save_state calls are, one for one
\* and in order, the snapshot names of the steps executed.
C2_EveryReturnSaves ==
    /\ unsaved = {}
    /\ Len(saveCalls) = Len(executed)
    /\ \A i \in 1..Len(executed) : saveCalls[i] = SnapshotName[executed[i]]

(***************************************************************************)
(* Properties of the readers.                                              *)
(***************************************************************************)
\* the steps whose state event the stream has yielded
Delivered == {rd.events[i].step : i \in {j \in 1..Len(rd.events) : rd.events[j].type = "state"}}

LastEvent == rd.events[Len(rd.events)]

EndedWith(type) == rd.phase = "ended" /\ rd.events # <<>> /\ LastEvent.type = type

ProperEnd ==
    /\ rd.phase \in {"closed", "open", "listed"} =>
          /\ \A i \in 1..Len(rd.events) : rd.events[i].type \in {"state", "error"}
          /\ "99_final" \notin rd.seen
    /\ rd.phase = "open" => rd.polls <= MaxPolls
    /\ rd.phase = "listed" => rd.polls < MaxPolls
    /\ rd.phase = "ended" =>
          /\ EndedWith("complete") \/ EndedWith("timeout")
          /\ \A i \in 1..(Len(rd.events) - 1) : rd.events[i].type \in {"state", "error"}
          /\ EndedWith("complete") =>
                /\ Len(rd.events) >= 2
                /\ rd.events[Len(rd.events) - 1] = StateEvent("99_final")
                /\ HasFile(rd.dir, "99_final") /\ FileAt(rd.dir, "99_final").status = "full"
          /\ EndedWith("timeout") => rd.polls = MaxPolls /\ "99_final" \notin rd.seen

\* C7: a stream once opened ends, and it ends properly: with complete in
\* the poll that reads 99_final, else with timeout when the bounded wait is
\* over; while open it has made at most MaxPolls polls.
C7_StreamTerminates ==
    /\ []ProperEnd
    /\ (rd.phase \in {"open", "listed"}) ~> (rd.phase = "ended")

C7_Witness == EndedWith("timeout") /\ Delivered # {} /\ pc # "done"

\* a step of the stream generator or of a status request
ReaderStep == rd' # rd \/ qres' # qres

\* what one poll does with the snapshot files of its directory
PollTreatsFiles ==
    (rd.phase = "listed" /\ rd'.polls = rd.polls + 1) =>
        \A f \in {g \in FilesIn(rd.dir) : \E i \in 1..Len(rd.todo) : rd.todo[i] = g.step} :
            /\ (f.status = "partial" /\ f.step \notin rd.seen) =>
                  /\ f.step \notin rd'.seen
                  /\ ~(\E i \in 1..Len(rd'.events) : rd'.events[i] = CompleteEvent /\ f.step = "99_final")
                  /\ (rd'.phase = "ended" => "99_final" \in rd'.seen)
            /\ f.status = "full" => f.step \in rd'.seen

\* C8: only snapshots that could be read are marked seen and delivered, a
\* poll leaves a partially written snapshot unseen without ending the
\* stream on its account and delivers every readable snapshot not yet seen,
\* and no step of a reader changes a file or anything the writer uses.
C8_PartialNotYetAvailable ==
    /\ [](/\ rd.seen = Delivered
          /\ \A n \in rd.seen : HasFile(rd.dir, n) /\ FileAt(rd.dir, n).status = "full")
    /\ [][PollTreatsFiles]_vars
    /\ [][ReaderStep => UNCHANGED <<req, pc, st, stateDir, files, writing, faults, saveCalls,
                                     executed, raisedIn, unsaved, outcome, calls>>]_vars

C8_Witness ==
    \E i \in 1..Len(rd.events) : \E j \in 1..Len(rd.events) :
        /\ i < j
        /\ rd.events[i].type = "error"
        /\ rd.events[j] = StateEvent(rd.events[i].step)

\* the progress table of the specification
ProgressTable ==
    [n \in StepNames |->
        CASE n = "00_initial" -> 0 [] n = "01_extract" -> 20 [] n = "02_calculate" -> 40
          [] n = "03_validate" -> 60 [] n = "04_analyze" -> 80 [] n = "05_format" -> 90
          [] n = "99_final" -> 100]

\* n is the greatest of names in the order of string comparison
LexGreatest(n, names) ==
    n \in names /\ \A m \in names \ {n} : LexLess(StepChars[m], StepChars[n])

\* a status request answered from the directory of the run
AnsweredFromRun == qres.asked /\ stateDir # NoDir /\ qres.dir = stateDir

\* progress and status as the claim gives them, for the snapshots counted
StatusFor(counted) ==
    LET a == qres.answer
    IN /\ counted = {} <=> a.status = "not_started"
       /\ "99_final" \in counted <=> a.status = "complete"
       /\ (counted # {} /\ "99_final" \notin counted) <=> a.status = "in_progress"
       /\ counted = {} => a.progress = 0 /\ a.latest_step = NoStep
       /\ counted # {} =>
             /\ LexGreatest(a.latest_step, counted)
             /\ a.progress = ProgressTable[a.latest_step]

SeqRange(seq) == {seq[i] : i \in 1..Len(seq)}

WrittenSnapshots == {f \in FilesIn(stateDir) : f.status = "full"}

\* C11: state.errors only grows: no step of the run removes or rewrites an
\* entry, and the errors recorded in a snapshot are an initial part of the
\* errors recorded in every snapshot written later in the same run.
C11_ErrorsOnlyGrow ==
    /\ [](\A f, g \in FilesIn(stateDir) :
             f.mtime <= g.mtime => IsPrefix(f.data.errors, g.data.errors))
    /\ [](\A f \in FilesIn(stateDir) : IsPrefix(f.data.errors, st.errors))
    /\ [][IsPrefix(st.errors, st'.errors)]_vars

\* a finished run whose snapshots record errors lists of three different
\* lengths, the first of them empty
C11_Witness ==
    /\ RanPipeline
    /\ \E f, g, h \in WrittenSnapshots :
          /\ f.mtime < g.mtime /\ g.mtime < h.mtime
          /\ f.data.errors = <<>>
          /\ Len(g.data.errors) = 1
          /\ Len(h.data.errors) >= 2

(***************************************************************************)
(* Properties of the analysis service.                                     *)
(***************************************************************************)
\* two model ids of a role that count as the same: equal, or "auto" and the
\* role's default id
SameModel(a, b, default) == a = b \/ {a, b} = {AUTO, default}

\* two requests with the same key (symbol, statement_name, models)
SameKey(r, q) ==
    /\ r.symbol = q.symbol
    /\ r.statement = q.statement
    /\ SameModel(r.extraction_model, q.extraction_model, DEFAULT_EXTRACTION_MODEL)
    /\ SameModel(r.analysis_model, q.analysis_model, DEFAULT_ANALYSIS_MODEL)

\* this step starts an analyze_stock call
CallStarts == svcCalls' = svcCalls + 1

\* the request of the call this step starts
StartedRequest ==
    IF ret'.call = svcCalls'
    THEN RequestOf(ret')
    ELSE RequestOf(jobs'[CHOOSE w \in Workers : jobs'[w].call = svcCalls'])

\* successful completions with the key of request q
CompletedFor(q) == {c \in completed : SameKey(c.request, q)}

\* C12: once analyze_stock has returned "analyzed" for a key, every call
\* started later with the same key ("auto" and the role's default id being
\* the same key) returns at once with status cached and a report stored by
\* a successful run of that key, without downloading or running the
\* pipeline and without writing anything.
C12_CachedAfterSuccess ==
    [][(CallStarts /\ CompletedFor(StartedRequest) # {}) =>
          /\ ret'.call = svcCalls'
          /\ ret'.status = "cached"
          /\ ~ret'.processed
          /\ ret'.result \in {c.report : c \in CompletedFor(StartedRequest)}
          /\ UNCHANGED <<results, jobs, touched, completed>>]_vars

\* a call passing "auto" was answered from the cache after a run that
\* passed the default model ids had stored its report
C12_Witness ==
    /\ ret.status = "cached"
    /\ ret.extraction_model = AUTO
    /\ ret.result \in Reports
    /\ \E c \in completed :
          /\ SameKey(c.request, RequestOf(ret))
          /\ c.request.extraction_model = DEFAULT_EXTRACTION_MODEL

\* C13: normalize applies the same resolution as resolve: for every model id
\* a call passes (null, "auto" or an explicit id) and each role, the id
\* analyze_stock folds into the cache key is the id the pipeline resolves
\* and uses for that role.
C13_NormalizeIsResolve ==
    \A w \in Workers :
        jobs[w].phase # "idle" =>
            LET n == NormalizedPair[<<jobs[w].extraction_model, jobs[w].analysis_model>>]
            IN /\ n[1] = get_extraction_model(jobs[w].extraction_model)
               /\ n[2] = get_analysis_model(jobs[w].analysis_model)

\* C14: when the text handed to the analysis is empty or shorter than 100
\* characters and a PDF path is available, the run goes through the five
\* steps with the PDF path in the state Extract works on (the multimodal
\* branch); the orchestrator does not abort it because of the text.
C14_EmptyTextProceeds ==
    (pc = "done" /\ TextInsufficient(req.pdf_text) /\ Truthy(req.pdf_path)) =>
        /\ executed = StepOrder
        /\ st.pdf_path = req.pdf_path
        /\ ~(outcome.kind = "raised" /\ outcome.msg[1] = "No PDF text content provided for analysis")

(***************************************************************************)
(* Properties of snapshot saving.                                          *)
(***************************************************************************)
\* this step contains a snapshot write that failed
FaultStep == faults' = faults + 1

\* C16: save_state never raises and never modifies the pipeline state: a
\* snapshot write that fails ends no run and sets no outcome, adds no entry
\* to state.errors and leaves the state as the step produced it (the final
\* save leaves it as it was), and the run goes on through all five steps
\* and all seven save_state calls.
C16_SaveStateSwallows ==
    /\ [](RanPipeline => executed = StepOrder /\ saveCalls = SnapshotOrder)
    /\ [](Len(st.errors) = Cardinality(raisedIn))
    /\ [][FaultStep =>
            /\ outcome' = outcome
            /\ pc' # "done"
            /\ writing # NoStep => UNCHANGED <<st, pc, executed, raisedIn>>
            /\ pc = "final" => st' = st]_vars
    /\ [][(writing' # NoStep /\ writing = NoStep) =>
            \E f \in files' : /\ f.dir = stateDir' /\ f.step = writing'
                              /\ f.data = Snapshot(st', writing')]_vars

\* a run returned its report although a snapshot write failed and left a
\* snapshot missing or truncated
C16_Witness ==
    /\ RanPipeline
    /\ faults > 0
    /\ outcome.kind = "returned"
    /\ \E n \in 1..Len(SnapshotOrder) :
          \/ ~HasFile(stateDir, SnapshotOrder[n])
          \/ FileAt(stateDir, SnapshotOrder[n]).status = "partial"

\* the directory of a run's own (symbol, model_key)
HomeDir(t) == ResultDirOf[t.symbol][<<t.extraction_model, t.analysis_model>>]

\* runs for different symbols write into different directories, neither
\* inside the other, and concurrent runs hold different snapshot directories
RunsDisjoint ==
    /\ \A a, b \in touched :
          a.symbol # b.symbol => ~IsPrefix(a.dir, b.dir) /\ ~IsPrefix(b.dir, a.dir)
    /\ \A v, w \in Workers :
          (v # w /\ jobs[v].phase = "analyzing" /\ jobs[w].phase = "analyzing"
                 /\ jobs[v].symbol # jobs[w].symbol)
              => jobs[v].stateDir # jobs[w].stateDir

\* every directory a run writes into lies in the directory of its own
\* (symbol, model_key)
RunsConfined == \A t \in touched : IsPrefix(HomeDir(t), t.dir)

\* C15: two runs for different symbols never write snapshots or results
\* into the same directory and share no state, also when they run
\* concurrently on the pool; each run's files are confined to the directory
\* of its own (symbol, model_key).
C15_RunsIsolated == RunsDisjoint /\ RunsConfined

(***************************************************************************)
(* Properties of the validator.                                            *)
(***************************************************************************)
\* the entries of a sequence
Entries(seq) == {seq[i] : i \in 1..Len(seq)}

\* validate_all has been called and has returned
Validated == res # NoneV

\* the findings of warning severity: missing cash-flow operands, anything
\* about net income, anything about free cash flow
WarningFindings ==
    {"cash_flow:missing", "net_income:missing", "net_income:mismatch",
     "fcf:missing", "fcf:mismatch"}

\* the findings of error severity
ErrorFindings ==
    {"critical_metrics:missing", "balance_sheet:missing", "balance_sheet:mismatch",
     "cash_flow:mismatch"}

\* C17: validate_all returns is_valid = true exactly when none of the five
\* checks produced a finding of error severity; findings of warning
\* severity (missing cash-flow operands, net-income mismatch, free-cash-flow
\* mismatch) are reported as warnings only and never change is_valid.
C17_ValidIffNoErrors ==
    Validated =>
        /\ res.is_valid <=> (Entries(res.errors) \cap ErrorFindings = {})
        /\ Entries(res.errors) \subseteq ErrorFindings
        /\ Entries(res.warnings) \subseteq WarningFindings
        /\ res.is_valid <=>
              /\ validate_critical_metrics(arg.v).errors = <<>>
              /\ validate_balance_sheet(arg.v).errors = <<>>
              /\ validate_cash_flow_reconciliation(arg.v).errors = <<>>

\* a statement judged valid although net income and free cash flow both
\* mismatch
C17_Witness ==
    /\ Validated
    /\ res.is_valid
    /\ {"net_income:mismatch", "fcf:mismatch"} \subseteq Entries(res.warnings)

\* the amount under key k, or NoneV
Amount(k) == Get(arg.v, k)

\* |a| <= b for exact amounts
AbsWithin(a, b) == ~RGt(RAbs(a), b)

\* the balance_sheet findings among the errors returned
BalanceErrors == {i \in 1..Len(res.errors) :
                    res.errors[i] \in {"balance_sheet:missing", "balance_sheet:mismatch"}}

\* C18: the balance-sheet check passes exactly when total_assets,
\* total_liabilities and shareholders_equity are all present and
\* |total_assets - (total_liabilities + shareholders_equity)| is at most 1%
\* of total_assets; otherwise it adds exactly one balance_sheet error.
C18_BalanceSheetTolerance ==
    Validated =>
        LET ta == Amount("total_assets")
            tl == Amount("total_liabilities")
            se == Amount("shareholders_equity")
            passes == /\ NoneV \notin {ta, tl, se}
                      /\ AbsWithin(RSub(ta, RAdd(tl, se)), RDiv(ta, Hundred))
        IN /\ passes <=> BalanceErrors = {}
           /\ ~passes => Cardinality(BalanceErrors) = 1

\* assets 1000, liabilities 600, equity 401 was validated and passed the
\* balance-sheet check
C18_Witness ==
    /\ Validated
    /\ Amount("total_assets") = Num(1000)
    /\ Amount("total_liabilities") = Num(600)
    /\ Amount("shareholders_equity") = Num(401)
    /\ BalanceErrors = {}

\* the larger of two exact amounts
RMax(a, b) == IF RGt(a, b) THEN a ELSE b

\* C19: the cash-flow reconciliation accepts exactly when
\* |ending_cash - (beginning_cash + net_change_cash)| is at most
\* max(1% of |beginning_cash|, 1000), the floor of 1000 applying for every
\* beginning_cash; missing operands produce only a warning.
C19_CashFlowFloor ==
    Validated =>
        LET bc == Amount("beginning_cash")
            nc == Amount("net_change_cash")
            ec == Amount("ending_cash")
            missing == NoneV \in {bc, nc, ec}
        IN /\ missing => /\ "cash_flow:missing" \in Entries(res.warnings)
                         /\ "cash_flow:mismatch" \notin Entries(res.errors)
           /\ ~missing =>
                ("cash_flow:mismatch" \notin Entries(res.errors)
                    <=> AbsWithin(RSub(ec, RAdd(bc, nc)),
                                  RMax(RDiv(RAbs(bc), Hundred), Num(1000))))

\* some string of m holds a code fence
HoldsFence(m) == \E k \in DOMAIN m.v : m.v[k].t = "str" /\ Find(m.v[k].v, FENCE, 0) >= 0

\* C20: for any mapping m, parse_response applied to json.dumps(m) returns m,
\* and applied to the same serialization inside a ```json fence returns the
\* same m
C20_RoundTrip == res # NoneV => res.out = Parsed(arg)

\* what does hold: the mappings whose strings hold no code fence round-trip,
\* serialized or fenced
FenceFreeRoundTrip == (res # NoneV /\ ~HoldsFence(arg)) => res.out = Parsed(arg)

\* the response opens an object that is never closed and stops in a value:
\* no '}' after the first '{', and the last ':' is after the last ',' and
\* after the '{'
CutInValue(text) ==
    /\ Find(text, <<"{">>, 0) >= 0
    /\ RFind(text, <<"}">>) <= Find(text, <<"{">>, 0)
    /\ RFind(text, <<":">>) > RFind(text, <<",">>)
    /\ RFind(text, <<":">>) > Find(text, <<"{">>, 0)

\* the messages that diagnose a truncation
TruncationMessages ==
    {"Response appears truncated - no closing brace found", "JSON appears truncated"}

\* C21: a response that opens a JSON object and is cut off in the middle of a
\* value makes parse_response raise an error that diagnoses the truncation:
\* no value is returned and the error is not the generic one
C21_TruncationDiagnosed ==
    (res # NoneV /\ res.form = "truncated" /\ CutInValue(res.text))
        => /\ res.out.kind = "ValueError"
           /\ res.out.msg \in TruncationMessages

\* the response {"a": 1, "b": "x was parsed
C21_Witness ==
    /\ res # NoneV
    /\ res.form = "truncated"
    /\ res.text = <<"{", "\"", "a", "\"", ":", " ", "1", ",", " ",
                    "\"", "b", "\"", ":", " ", "\"", "x">>
    /\ res.out.msg = "Response appears truncated - no closing brace found"

\* Extract was called and has returned
Extracted == res # NoneV /\ "made" \in DOMAIN res

\* C22 as stated: the PDF extraction is used exactly when the resolved
\* extraction model is multimodal or the text is empty or under 100
\* characters, and the text call is made in every other case
C22_PdfIffMultimodalOrShort ==
    Extracted =>
        (res.made.via = "call_llm_with_pdf"
            <=> \/ is_multimodal_model(get_extraction_model(arg.extraction_model))
                \/ arg.pdf_text \in {"none", "empty", "blank", "short"})

\* C22 amended: the PDF extraction is used exactly when a pdf_path is given
\* and the resolved extraction model is multimodal or the text is empty or
\* under 100 characters; the text call, with the resolved model, is made in
\* every other case
C22_PdfNeedsPath ==
    Extracted =>
        LET resolved == IF arg.extraction_model \in {NoneStr, AUTO}
                        THEN DEFAULT_EXTRACTION_MODEL ELSE arg.extraction_model
            pdf == /\ arg.pdf_path = PdfPath
                   /\ \/ resolved \in {GEMINI_PRO, GEMINI_FLASH}
                      \/ arg.pdf_text \in {"none", "empty", "blank", "short"}
        IN /\ pdf => res.made.via = "call_llm_with_pdf"
           /\ ~pdf => /\ res.made.via = "call_llm_with_json_response"
                      /\ res.made.models = <<resolved>>

\* a short text with a path went to the PDF extraction although the model is
\* not multimodal
C22_Witness ==
    /\ Extracted
    /\ arg.pdf_path = PdfPath
    /\ arg.pdf_text = "short"
    /\ arg.extraction_model = AUTO
    /\ res.made.via = "call_llm_with_pdf"

\* the candidates of a PDF extraction: the preferred multimodal model, then
\* the fixed list
CandidatesOf(s) ==
    LET resolved == IF s.extraction_model \in {NoneStr, AUTO}
                    THEN DEFAULT_EXTRACTION_MODEL ELSE s.extraction_model
    IN (IF resolved \in {GEMINI_PRO, GEMINI_FLASH} THEN <<resolved>> ELSE <<>>)
       \o <<GEMINI_PRO, GEMINI_FLASH>>

\* C23: the PDF extraction calls the preferred multimodal model first and
\* then the models of the fixed list in order; every failure, quota or not,
\* leads to the next candidate; the data returned is that of the first call
\* that succeeds and no call follows it; the step fails only when every
\* candidate failed, and the error it reports is the last failure
C23_PdfFallback ==
    (Extracted /\ res.made.via = "call_llm_with_pdf") =>
        LET called == res.made.models
            n      == Len(called)
            cands  == CandidatesOf(arg)
            failed == \A i \in 1..Len(cands) : res.env.pdf[i] # "ok"
        IN /\ n >= 1
           /\ IsPrefix(called, cands)
           /\ \A i \in 1..(n - 1) : res.env.pdf[i] # "ok"
           /\ ~failed => /\ res.env.pdf[n] = "ok"
                         /\ st.extracted_data.v["eps"] = Num(n)
                         /\ st.errors = arg.errors
           /\ failed => /\ called = cands
                        /\ res.made.last_error = Len(cands)
                        /\ st.errors = Append(arg.errors, "Extraction error: ")
                        /\ st.extracted_data = EmptyDict

\* the preferred model failed without a quota error, the first model of the
\* list failed with one, the second returned the data
C23_Witness ==
    /\ Extracted
    /\ arg.extraction_model = GEMINI_FLASH
    /\ res.env.pdf = <<"error", "quota", "ok">>
    /\ res.made.models = <<GEMINI_FLASH, GEMINI_PRO, GEMINI_FLASH>>
    /\ st.extracted_data.v["eps"] = Num(3)

\* C24: after a successful Extract, token_usage.steps.extract has a model
\* field that names the model that produced the extraction
C24_ExtractUsageNamesModel ==
    (Extracted /\ st.errors = arg.errors) =>
        /\ "extract" \in DOMAIN st.token_usage.steps
        /\ "model" \in DOMAIN st.token_usage.steps["extract"]
        /\ st.token_usage.steps["extract"].model = res.made.models[Len(res.made.models)]

\* what the entry does hold: the three counts of the call, and nothing else
ExtractUsageIsCounts ==
    (Extracted /\ st.errors = arg.errors) =>
        /\ "extract" \in DOMAIN st.token_usage.steps
        /\ DOMAIN st.token_usage.steps["extract"]
              = {"prompt_tokens", "completion_tokens", "total_tokens"}

\* ---- C25 ----
\* validate_step.execute has returned for the state kept in arg
ValidateReturned == res # NoneV /\ "called" \in DOMAIN res /\ res.called = "validate"

NoExtraction(s) == s.extracted_data = NoneV \/ ~IsDict(s.extracted_data)

\* state.get("calculated_metrics") or {}
CalculatedOf(s) == IF s.calculated_metrics = NoneV THEN NoKeys ELSE s.calculated_metrics.v

\* the mapping over the keys of both e and c that takes c's value wherever c
\* has the key
Overridden(e, c) ==
    [k \in DOMAIN e \cup DOMAIN c |-> IF k \in DOMAIN c THEN c[k] ELSE e[k]]

\* C25: when extracted_data is missing or not a mapping, Validate stores
\* {is_valid: false, errors: ["No data to validate"], warnings: []} (which no
\* run of the validator produces); in every other case validation_results
\* is what the validator returns for extracted_data overridden by
\* calculated_metrics, or is left empty when the validator raises
C25_ValidateShortCircuitOrMerge ==
    ValidateReturned =>
        IF NoExtraction(arg)
        THEN st.validation_results =
                 Dict([is_valid |-> FALSE, errors |-> <<"No data to validate">>,
                       warnings |-> <<>>])
        ELSE IF "validate" \in arg.extracted_data.trips
        THEN st.validation_results = EmptyDict
        ELSE st.validation_results =
                 Dict(validate_all(Overridden(arg.extracted_data.v, CalculatedOf(arg))))

\* C25 witness: Validate ran on a mapping whose shareholders_equity the
\* calculated metrics restate, and the validator's verdict is the one for the
\* restated value
C25_Witness ==
    /\ ValidateReturned
    /\ ~NoExtraction(arg)
    /\ arg.calculated_metrics # NoneV
    /\ \E k \in DOMAIN arg.extracted_data.v \cap DOMAIN arg.calculated_metrics.v :
          arg.extracted_data.v[k] # arg.calculated_metrics.v[k]
    /\ \E i \in DOMAIN st.validation_results.v.errors :
          st.validation_results.v.errors[i] = "balance_sheet:mismatch"
    /\ validate_all(arg.extracted_data.v).is_valid

\* ---- C26 ----
\* calculate_step.execute has returned for the state kept in arg
CalculateReturned == res # NoneV /\ "called" \in DOMAIN res /\ res.called = "calculate"

\* the operands of the metrics that are computed from extracted keys and the
\* stock price alone, and those of them the metric divides by
MetricOperands ==
    [roe             |-> <<"net_income", "shareholders_equity">>,
     roa             |-> <<"net_income", "total_assets">>,
     current_ratio   |-> <<"current_assets", "current_liabilities">>,
     working_capital |-> <<"current_assets", "current_liabilities">>,
     pe_ratio        |-> <<"stock_price", "eps">>]

MetricDivisors ==
    [roe             |-> <<"shareholders_equity">>,
     roa             |-> <<"total_assets">>,
     current_ratio   |-> <<"current_liabilities">>,
     working_capital |-> <<>>,
     pe_ratio        |-> <<"eps">>]

OperandOf(s, k) == IF k = "stock_price" THEN s.stock_price ELSE Get(s.extracted_data.v, k)

\* the value of metric m on the operands a, b in the order of MetricOperands
MetricValue(m, a, b) ==
    CASE m \in {"roe", "roa"}   -> RMul(RDiv(a, b), Hundred)
      [] m = "working_capital"  -> RSub(a, b)
      [] OTHER                  -> RDiv(a, b)

AllPresent(s, m) ==
    \A i \in DOMAIN MetricOperands[m] : OperandOf(s, MetricOperands[m][i]) # NoneV

NoZeroDivisor(s, m) ==
    \A i \in DOMAIN MetricDivisors[m] : OperandOf(s, MetricDivisors[m][i]) # Num(0)

NoZeroOperand(s, m) ==
    \A i \in DOMAIN MetricOperands[m] : OperandOf(s, MetricOperands[m][i]) # Num(0)

PositiveDivisors(s, m) ==
    \A i \in DOMAIN MetricDivisors[m] : OperandOf(s, MetricDivisors[m][i]).n > 0

\* the metric is stored with its computed value when cond holds and its key
\* is absent otherwise
StoredIff(m, cond) ==
    IF cond
    THEN /\ m \in DOMAIN st.calculated_metrics.v
         /\ st.calculated_metrics.v[m] =
                MetricValue(m, OperandOf(arg, MetricOperands[m][1]),
                               OperandOf(arg, MetricOperands[m][2]))
    ELSE m \notin DOMAIN st.calculated_metrics.v

Yielded(type) == \E i \in DOMAIN rd.events : rd.events[i].type = type

\* the snapshot of this name in the directory the stream reads was written by
\* the run under way
OwnSnapshot(step_name) ==
    /\ HasFile(rd.dir, step_name)
    /\ FileAt(rd.dir, step_name).mtime > 0

\* C27: a stream opened after a run for the key was started yields complete
\* only once that run has written its own 99_final snapshot, and every state
\* event it yields comes from a snapshot that run wrote, never from a file an
\* earlier run of the key left in the directory
C27_StreamFollowsOwnRun ==
    /\ Yielded("complete") => OwnSnapshot("99_final")
    /\ \A i \in DOMAIN rd.events :
          rd.events[i].type = "state" => OwnSnapshot(rd.events[i].step)

\* every snapshot a stream reports exists in the directory it reads
EventsHaveFiles ==
    \A i \in DOMAIN rd.events :
        rd.events[i].type = "state" => HasFile(rd.dir, rd.events[i].step)

\* ---- C28 ----
\* the result file of the key of req
CachedNow == has_result(CacheDir(req), LatestStatement)

\* C28: the result files change only when a pipeline run for the key has
\* returned, having gone through Format with state.errors empty, and what
\* is stored is that run's report; a call whose run raised answers error and
\* leaves the result files as they are; a call answers cached only when the
\* result file exists, so after a failed run the next call does not
C28_CacheOnlyAfterCleanRun ==
    [][ /\ results' # results =>
              /\ pc = "done" /\ outcome.kind = "returned"
              /\ st.errors = <<>>
              /\ executed # <<>> /\ executed[Len(executed)] = "format"
              /\ results' = save_result(CacheDir(req), LatestStatement, st.final_report)
        /\ (pc = "done" /\ pc' = "service" /\ (st.errors # <<>> \/ outcome.kind = "raised")) =>
              /\ ret'.status = "error"
              /\ results' = results
        /\ (svcCalls' # svcCalls /\ ret'.call = svcCalls' /\ ret'.status = "cached") => CachedNow
        /\ (svcCalls' # svcCalls /\ ~CachedNow) => ret'.status # "cached"
      ]_vars

\* C28 witness: the previous call for the key was answered with error, no
\* result file exists, and the next call has run the pipeline again, up to
\* the end of Format
C28_Witness ==
    /\ svcCalls >= 2
    /\ ret.call = svcCalls - 1
    /\ ret.status = "error"
    /\ ret.processed
    /\ results = {}
    /\ pc = "final"
    /\ st.errors = <<>>

\* ---- C29 ----
\* the number of steps that have returned when the snapshot of this name is
\* saved
StepsBefore(snapshot) ==
    CASE snapshot = "00_initial" -> 0
      [] snapshot = "99_final"   -> Len(StepOrder)
      [] OTHER -> CHOOSE i \in 1..Len(StepOrder) : SnapshotName[StepOrder[i]] = snapshot

\* the output of the i-th step as the snapshot record d holds it
OutputIn(d, i) == d[OutputKey[StepOrder[i]]]

\* C29: in every snapshot written during a run the outputs of the steps that
\* have not executed yet are null, 00_initial has an empty errors list, and a
\* step's output is non-null only together with the outputs of all steps
\* before it
C29_SnapshotsGrowInStepOrder ==
    \A f \in files :
        /\ \A i \in 1..Len(StepOrder) :
              i > StepsBefore(f.step) => OutputIn(f.data, i) = NoneV
        /\ f.step = "00_initial" => f.data.errors = <<>>
        /\ \A i, j \in 1..Len(StepOrder) :
              (i < j /\ OutputIn(f.data, j) # NoneV) => OutputIn(f.data, i) # NoneV

\* C29 witness: the run has written 03_validate with the outputs of Extract,
\* Calculate and Validate and without those of Analyze and Format, and
\* 99_final with all five
C29_Witness ==
    /\ HasFile(stateDir, "03_validate")
    /\ HasFile(stateDir, "99_final")
    /\ LET v == FileAt(stateDir, "03_validate").data
           z == FileAt(stateDir, "99_final").data
       IN /\ \A i \in 1..3 : OutputIn(v, i) # NoneV
          /\ \A i \in 4..5 : OutputIn(v, i) = NoneV
          /\ \A i \in 1..5 : OutputIn(z, i) # NoneV
          /\ z.errors = <<>>

\* ---- C30 ----
\* the positions of the state events of the stream
StatePositions == {i \in DOMAIN rd.events : rd.events[i].type = "state"}

\* C30: over one stream that follows a run writing into an empty directory,
\* no step name is yielded in two state events, the progress of the state
\* events strictly increases, and complete is the last event and comes
\* directly after the state event of 99_final
C30_StreamInOrder ==
    /\ \A i, j \in StatePositions :
          i < j => /\ rd.events[i].step # rd.events[j].step
                   /\ rd.events[i].progress < rd.events[j].progress
    /\ \A i \in DOMAIN rd.events :
          rd.events[i].type = "complete" =>
              /\ i = Len(rd.events)
              /\ i > 1
              /\ rd.events[i - 1] = StateEvent("99_final")

\* C30 witness: a stream that took two polls has yielded the state events of
\* 00_initial to 99_final one after the other and then complete
C30_Witness ==
    /\ rd.phase = "ended"
    /\ rd.polls = 2
    /\ Cardinality(StatePositions) = Len(SnapshotOrder)
    /\ Len(rd.events) = Len(SnapshotOrder) + 1
    /\ \A i \in 1..Len(SnapshotOrder) : rd.events[i] = StateEvent(SnapshotOrder[i])
    /\ rd.events[Len(rd.events)].type = "complete"

====
